---------------------------- MODULE Spec2Model ----------------------------
(***************************************************************************)
(* A model of the tutoring engine of src/ai-util/sophi/sophi_ai.py and of  *)
(* its oracle gateway src/ai-util/sophi/wolfram_checker.py.                *)
(*                                                                         *)
(* The components share the module, one specification each:                *)
(*   SpecAdjust     SessionParameters.normalized, adjust_session_parameters *)
(*   SpecTransport  GeminiClient.generate_json (request loop, json fix)     *)
(*   SpecQuestion   SophiAIUtil.generate_question                           *)
(*   SpecValidate   validate_question_has_answer, validate_hint_against_step*)
(*   SpecHint       SophiAIUtil.generate_hint                               *)
(* Python strings are sequences of one-character strings, so that strip()  *)
(* and the substring test `in` are computed and not assumed.               *)
(***************************************************************************)
EXTENDS Integers, Sequences, FiniteSets, TLC

\* The state of each component is one record; its fields carry the names of
\* the parameters and locals of the code.
VARIABLES
    adj,    \* the difficulty controller: a call of normalized / adjust_session_parameters
    tr,     \* the transport: a call of GeminiClient.generate_json
    val,    \* a validator: validate_question_has_answer / validate_hint_against_step
    gq,     \* the question engine: a call of generate_question
    hint,    \* the hint engine: a call of generate_hint
    cls,     \* the subject classifier: a call of _is_math_related
    rp,      \* the parser of model text: a call of _parse_model_json
    cmp,     \* the compressor: a call of _compress_text while generate_json builds its payload
    api     \* the HTTP service of main.py: its collections and the requests in progress

vars == <<adj, tr, val, gq, hint, cls, rp, cmp, api>>

\* ------------------------------------------------------------------------
\* Values and strings
\* ------------------------------------------------------------------------

\* Python None where a str may stand (also: a key absent from a dict read
\* with .get()). No str equals it: a str is made of one-character strings.
NoneVal == <<"None">>

\* The empty str.
EmptyStr == << >>

IsWhitespace(c) == c \in {" ", "\n", "\t", "\r"}

RECURSIVE LStrip(_)
LStrip(s) ==
    IF s = << >> THEN << >>
    ELSE IF IsWhitespace(Head(s)) THEN LStrip(Tail(s)) ELSE s

RECURSIVE RStrip(_)
RStrip(s) ==
    IF s = << >> THEN << >>
    ELSE IF IsWhitespace(s[Len(s)]) THEN RStrip(SubSeq(s, 1, Len(s) - 1)) ELSE s

\* str.strip()
Strip(s) == RStrip(LStrip(s))

\* `sub in s` for two str
Contains(s, sub) ==
    \E i \in 0..(Len(s) - Len(sub)) : SubSeq(s, i + 1, i + Len(sub)) = sub

\* Python truthiness of a value that is None or a str.
Truthy(v) == v # NoneVal /\ v # EmptyStr

\* str(v or "").strip() for v None or a str
StrOrEmpty(v) == IF Truthy(v) THEN Strip(v) ELSE EmptyStr

\* ------------------------------------------------------------------------
\* Model text: code fences, JSON repair and json.loads
\* ------------------------------------------------------------------------

\* The backquote is written "'" here: a TLA+ string cannot hold it, and no
\* text of the model holds an apostrophe.
Backquote == "'"
Fence == <<Backquote, Backquote, Backquote>>
Quote == "\""
Backslash == "\\"

\* [a-zA-Z0-9_-], over the characters the texts are made of
IsTagChar(c) ==
    c \in {"a", "b", "c", "e", "i", "j", "k", "l", "n", "o", "s", "t", "x", "y",
           "0", "1", "2", "3", "4", "5", "6", "7", "8", "9", "_", "-"}

\* str.find(sub, start): the index (from 1) of the first occurrence of sub
\* that begins at from or later; 0 stands for -1.
Find(s, sub, from) ==
    LET at == { i \in from..(Len(s) - Len(sub) + 1) : SubSeq(s, i, i + Len(sub) - 1) = sub }
    IN  IF at = {} THEN 0 ELSE CHOOSE i \in at : \A j \in at : i <= j

\* str.rfind(ch): the index of the last occurrence of the character, 0 for -1.
RFind(s, ch) ==
    LET at == { i \in 1..Len(s) : s[i] = ch }
    IN  IF at = {} THEN 0 ELSE CHOOSE i \in at : \A j \in at : i >= j

\* The end of a greedy [class]* match begun at index from: the first index
\* at or after from whose character is outside the class.
SkipTag(s, from) ==
    LET at == { i \in from..Len(s) : ~IsTagChar(s[i]) }
    IN  IF at = {} THEN Len(s) + 1 ELSE CHOOSE i \in at : \A j \in at : i <= j

SkipSpace(s, from) ==
    LET at == { i \in from..Len(s) : ~IsWhitespace(s[i]) }
    IN  IF at = {} THEN Len(s) + 1 ELSE CHOOSE i \in at : \A j \in at : i <= j

\* GeminiClient._strip_code_fences
StripCodeFences(text) ==
    LET s == Strip(text)
        start_fence == Find(s, Fence, 1)
        content_start == SkipSpace(s, SkipTag(s, start_fence + 3))
        end_fence == Find(s, Fence, content_start)
    IN  IF start_fence = 0 THEN s
        ELSE IF end_fence # 0 THEN Strip(SubSeq(s, content_start, end_fence - 1))
        ELSE Strip(SubSeq(s, content_start, Len(s)))

\* GeminiClient._extract_json_candidate
ExtractJsonCandidate(text) ==
    LET s == StripCodeFences(text)
        first_obj == Find(s, <<"{">>, 1)
        first_arr == Find(s, <<"[">>, 1)
        start == IF first_obj = 0 THEN first_arr
                 ELSE IF first_arr = 0 THEN first_obj
                 ELSE IF first_obj < first_arr THEN first_obj ELSE first_arr
        end == IF start = first_obj THEN RFind(s, "}") ELSE RFind(s, "]")
    IN  IF first_obj = 0 /\ first_arr = 0 THEN s
        ELSE IF end = 0 \/ end <= start THEN SubSeq(s, start, Len(s))
        ELSE SubSeq(s, start, end)

\* The loop of _escape_newlines_in_json_strings from index i on, with the
\* flags in_str and escape as they stand there.
RECURSIVE EscapeFrom(_, _, _, _)
EscapeFrom(text, i, in_str, escape) ==
    IF i > Len(text) THEN << >>
    ELSE LET ch == text[i]
         IN  IF in_str
             THEN IF escape THEN <<ch>> \o EscapeFrom(text, i + 1, TRUE, FALSE)
                  ELSE IF ch = Backslash THEN <<ch>> \o EscapeFrom(text, i + 1, TRUE, TRUE)
                  ELSE IF ch = Quote THEN <<ch>> \o EscapeFrom(text, i + 1, FALSE, FALSE)
                  ELSE IF ch = "\n" THEN <<Backslash, "n">> \o EscapeFrom(text, i + 1, TRUE, FALSE)
                  ELSE IF ch = "\r" THEN EscapeFrom(text, i + 1, TRUE, FALSE)
                  ELSE IF ch = "\t" THEN <<Backslash, "t">> \o EscapeFrom(text, i + 1, TRUE, FALSE)
                  ELSE <<ch>> \o EscapeFrom(text, i + 1, TRUE, FALSE)
             ELSE <<ch>> \o EscapeFrom(text, i + 1, ch = Quote, FALSE)

\* GeminiClient._escape_newlines_in_json_strings
EscapeNewlinesInJsonStrings(text) == EscapeFrom(text, 1, FALSE, FALSE)

\* The loop of _close_unbalanced_json from index i on: the stack of closers
\* owed (last opened last) and in_str at the end of the text.
RECURSIVE ScanFrom(_, _, _, _, _)
ScanFrom(text, i, stack, in_str, escape) ==
    IF i > Len(text) THEN [stack |-> stack, in_str |-> in_str]
    ELSE LET ch == text[i]
         IN  IF in_str
             THEN IF escape THEN ScanFrom(text, i + 1, stack, TRUE, FALSE)
                  ELSE IF ch = Backslash THEN ScanFrom(text, i + 1, stack, TRUE, TRUE)
                  ELSE ScanFrom(text, i + 1, stack, ch # Quote, FALSE)
             ELSE IF ch = Quote THEN ScanFrom(text, i + 1, stack, TRUE, FALSE)
             ELSE IF ch = "{" THEN ScanFrom(text, i + 1, Append(stack, "}"), FALSE, FALSE)
             ELSE IF ch = "[" THEN ScanFrom(text, i + 1, Append(stack, "]"), FALSE, FALSE)
             ELSE IF ch \in {"}", "]"} /\ stack # << >> /\ stack[Len(stack)] = ch
             THEN ScanFrom(text, i + 1, SubSeq(stack, 1, Len(stack) - 1), FALSE, FALSE)
             ELSE ScanFrom(text, i + 1, stack, FALSE, FALSE)

\* reversed(stack)
Reversed(s) == [i \in 1..Len(s) |-> s[Len(s) + 1 - i]]

\* The closers appended in the order of opening.
CloseUnbalancedJson_OpeningOrder(text) ==
    LET end == ScanFrom(text, 1, << >>, FALSE, FALSE)
    IN  text \o (IF end.in_str THEN <<Quote>> ELSE << >>) \o end.stack

\* GeminiClient._close_unbalanced_json
CloseUnbalancedJson(text) ==
    LET end == ScanFrom(text, 1, << >>, FALSE, FALSE)
    IN  text \o (IF end.in_str THEN <<Quote>> ELSE << >>) \o Reversed(end.stack)

\* re.sub(r",\s*([}\]])", r"\1", s) from index i on
RECURSIVE StripCommasFrom(_, _)
StripCommasFrom(s, i) ==
    IF i > Len(s) THEN << >>
    ELSE LET j == SkipSpace(s, i + 1)
         IN  IF s[i] = "," /\ j <= Len(s) /\ s[j] \in {"}", "]"}
             THEN <<s[j]>> \o StripCommasFrom(s, j + 1)
             ELSE <<s[i]>> \o StripCommasFrom(s, i + 1)

StripTrailingCommas(s) == StripCommasFrom(s, 1)

\* The repair without the removal of trailing commas.
RepairJsonText_KeepCommas(text) ==
    Strip(CloseUnbalancedJson(EscapeNewlinesInJsonStrings(ExtractJsonCandidate(text))))

\* The repair with the trailing commas removed before the closers are added.
RepairJsonText_CommasFirst(text) ==
    Strip(CloseUnbalancedJson(StripTrailingCommas(
        EscapeNewlinesInJsonStrings(ExtractJsonCandidate(text)))))

\* GeminiClient._repair_json_text
RepairJsonText(text) ==
    Strip(StripTrailingCommas(
        CloseUnbalancedJson(EscapeNewlinesInJsonStrings(ExtractJsonCandidate(text)))))

\* JSON values: a number, a str, a list, a dict (keys to values).
JNum(n) == [t |-> "num", n |-> n]
JStr(s) == [t |-> "str", s |-> s]
JArr(items) == [t |-> "arr", items |-> items]
JObj(members) ==
    [t |-> "obj",
     members |-> [k \in { members[i][1] : i \in 1..Len(members) } |->
                    LET at == { i \in 1..Len(members) : members[i][1] = k }
                    IN  members[CHOOSE i \in at : \A j \in at : i >= j][2]]]
NoJson == [t |-> "none"]

\* What a parsing step yields: json.JSONDecodeError, or the value read and
\* the index after it.
JFail == [ok |-> FALSE, v |-> NoJson, i |-> 0]
JOk(v, i) == [ok |-> TRUE, v |-> v, i |-> i]

IsJsonSpace(c) == c \in {" ", "\n", "\t", "\r"}

SkipJsonSpace(s, from) ==
    LET at == { i \in from..Len(s) : ~IsJsonSpace(s[i]) }
    IN  IF at = {} THEN Len(s) + 1 ELSE CHOOSE i \in at : \A j \in at : i <= j

IsDigit(c) == c \in {"0", "1", "2", "3", "4", "5", "6", "7", "8", "9"}

DigitValue(c) ==
    CASE c = "0" -> 0 [] c = "1" -> 1 [] c = "2" -> 2 [] c = "3" -> 3 [] c = "4" -> 4
      [] c = "5" -> 5 [] c = "6" -> 6 [] c = "7" -> 7 [] c = "8" -> 8 [] c = "9" -> 9

\* The characters of a JSON string from index i (after the opening quote)
\* to its closing quote; a raw control character, an unknown escape or the
\* end of the text is an error.
RECURSIVE ParseChars(_, _, _)
ParseChars(s, i, acc) ==
    IF i > Len(s) THEN JFail
    ELSE IF s[i] = Quote THEN JOk(JStr(acc), i + 1)
    ELSE IF s[i] \in {"\n", "\t", "\r"} THEN JFail
    ELSE IF s[i] = Backslash
    THEN IF i + 1 > Len(s) THEN JFail
         ELSE IF s[i + 1] \in {Quote, Backslash, "/"}
         THEN ParseChars(s, i + 2, Append(acc, s[i + 1]))
         ELSE IF s[i + 1] = "n" THEN ParseChars(s, i + 2, Append(acc, "\n"))
         ELSE IF s[i + 1] = "t" THEN ParseChars(s, i + 2, Append(acc, "\t"))
         ELSE IF s[i + 1] = "r" THEN ParseChars(s, i + 2, Append(acc, "\r"))
         ELSE JFail
    ELSE ParseChars(s, i + 1, Append(acc, s[i]))

\* An unsigned integer without a leading zero from index i on.
RECURSIVE ParseDigits(_, _, _)
ParseDigits(s, i, n) ==
    IF i <= Len(s) /\ IsDigit(s[i]) THEN ParseDigits(s, i + 1, 10 * n + DigitValue(s[i]))
    ELSE JOk(JNum(n), i)

RECURSIVE ParseValue(_, _)
RECURSIVE ParseMembers(_, _, _)
RECURSIVE ParseElements(_, _, _)

\* The members of an object after "{" or ",": key, colon, value, then "," or "}".
ParseMembers(s, i, acc) ==
    LET k == SkipJsonSpace(s, i)
        key == IF k <= Len(s) /\ s[k] = Quote THEN ParseChars(s, k + 1, << >>) ELSE JFail
        c == SkipJsonSpace(s, key.i)
        member == IF key.ok /\ c <= Len(s) /\ s[c] = ":" THEN ParseValue(s, c + 1) ELSE JFail
        e == SkipJsonSpace(s, member.i)
        members == Append(acc, <<key.v.s, member.v>>)
    IN  IF ~member.ok \/ e > Len(s) THEN JFail
        ELSE IF s[e] = "}" THEN JOk(JObj(members), e + 1)
        ELSE IF s[e] = "," THEN ParseMembers(s, e + 1, members)
        ELSE JFail

\* The elements of an array after "[" or ",".
ParseElements(s, i, acc) ==
    LET member == ParseValue(s, i)
        e == SkipJsonSpace(s, member.i)
        items == Append(acc, member.v)
    IN  IF ~member.ok \/ e > Len(s) THEN JFail
        ELSE IF s[e] = "]" THEN JOk(JArr(items), e + 1)
        ELSE IF s[e] = "," THEN ParseElements(s, e + 1, items)
        ELSE JFail

\* One JSON value after optional white space.
ParseValue(s, i) ==
    LET k == SkipJsonSpace(s, i)
        n == SkipJsonSpace(s, k + 1)
    IN  IF k > Len(s) THEN JFail
        ELSE IF s[k] = "{"
        THEN IF n <= Len(s) /\ s[n] = "}" THEN JOk(JObj(<< >>), n + 1)
             ELSE ParseMembers(s, k + 1, << >>)
        ELSE IF s[k] = "["
        THEN IF n <= Len(s) /\ s[n] = "]" THEN JOk(JArr(<< >>), n + 1)
             ELSE ParseElements(s, k + 1, << >>)
        ELSE IF s[k] = Quote THEN ParseChars(s, k + 1, << >>)
        ELSE IF s[k] = "0" THEN JOk(JNum(0), k + 1)
        ELSE IF IsDigit(s[k]) THEN ParseDigits(s, k, 0)
        ELSE JFail

\* json.loads(text): one value and nothing but white space after it.
JsonLoads(text) ==
    LET r == ParseValue(text, 1)
    IN  IF r.ok /\ SkipJsonSpace(text, r.i) > Len(text) THEN JOk(r.v, Len(text) + 1)
        ELSE JFail

\* Documents the model may have meant to send: JSON objects with a number,
\* a str, escapes inside a str, a list and a nested object.
DocNumber == <<"{", "\"", "a", "\"", ":", "1", "}">>
DocLine == <<"{", "\"", "a", "\"", ":", " ", "\"", "l", "i", "n", "e", "1", "\"", "}">>
DocEscapedNewline == <<"{", "\"", "a", "\"", ":", "\"", "x", "\\", "n", "y", "\"", "}">>
DocArray == <<"{", "\"", "a", "\"", ":", "[", "\"", "x", "1", "\"", ",", "1", "]", "}">>
DocNested == <<"{", "\"", "a", "\"", ":", "{", "\"", "b", "\"", ":", "\"", "x", "y", "\"", "}", ",", "\"", "c", "\"", ":", "1", "}">>
DocEscapedQuote == <<"{", "\"", "a", "\"", ":", "\"", "x", "\\", "\"", "y", "\"", "}">>

Docs == {DocNumber, DocLine, DocEscapedNewline, DocArray, DocNested, DocEscapedQuote}

\* The str values of the documents: from is the index of the opening quote,
\* to the index of the last character before the closing quote, closers the
\* brackets still open there, innermost first.
ValueStrings ==
    { [doc |-> DocLine, from |-> 7, to |-> 12, closers |-> <<"}">>],
      [doc |-> DocEscapedNewline, from |-> 6, to |-> 10, closers |-> <<"}">>],
      [doc |-> DocArray, from |-> 7, to |-> 9, closers |-> <<"]", "}">>],
      [doc |-> DocNested, from |-> 11, to |-> 13, closers |-> <<"}", "}">>],
      [doc |-> DocEscapedQuote, from |-> 6, to |-> 10, closers |-> <<"}">>] }

\* What surrounds the document in the text of the model: nothing, a code
\* fence with or without a language tag, a fence that is never closed, words
\* before the document.
Wrappers ==
    { [id |-> "bare", before |-> << >>, after |-> << >>],
      [id |-> "fenced_tag", before |-> <<"'", "'", "'", "j", "s", "o", "n", "\n">>, after |-> <<"\n", "'", "'", "'">>],
      [id |-> "fenced_tag_tight", before |-> <<"'", "'", "'", "j", "s", "o", "n">>, after |-> <<"'", "'", "'">>],
      [id |-> "fenced", before |-> <<"'", "'", "'", "\n">>, after |-> <<"\n", "'", "'", "'">>],
      [id |-> "fenced_open", before |-> <<"'", "'", "'", "j", "s", "o", "n", "\n">>, after |-> << >>],
      [id |-> "prose", before |-> <<"s", "o", " ">>, after |-> << >>] }

Wrapper(id) == CHOOSE w \in Wrappers : w.id = id

\* A closed fence with a language tag.
TaggedFences == {"fenced_tag", "fenced_tag_tight"}

\* Text that was cut off has nothing after it.
OpenWrappers == {"bare", "fenced_open", "prose"}

\* What stands between the last member and the closing brace when the model
\* leaves a trailing comma.
CommaSeparators == {<<",">>, <<",", " ">>, <<",", "\n">>}

\* The document as the model sent it: whole, with a trailing comma before
\* the closing brace, or cut off after cut characters.
Damaged(doc, damage, sep, cut) ==
    CASE damage = "none" -> doc
      [] damage = "comma" -> SubSeq(doc, 1, Len(doc) - 1) \o sep \o <<"}">>
      [] damage = "cut" -> SubSeq(doc, 1, cut)

\* A call of _parse_model_json at its entry: text is the argument; doc,
\* damage, sep, cut and wrapper record how the text was made; pc is "start" |
\* "repair" | "returned" | "raised" | "idle"; cleaned and repaired are the
\* locals, value the value returned, used_repair whether it came from the
\* except branch.
RpStart(doc, damage, sep, cut, wrapper) ==
    [doc |-> doc, damage |-> damage, sep |-> sep, cut |-> cut, wrapper |-> wrapper,
     text |-> Wrapper(wrapper).before \o Damaged(doc, damage, sep, cut)
                \o Wrapper(wrapper).after,
     pc |-> "start", cleaned |-> EmptyStr, repaired |-> EmptyStr,
     value |-> NoJson, used_repair |-> FALSE]

RpIdle == [RpStart(EmptyStr, "none", EmptyStr, 0, "bare") EXCEPT !.pc = "idle"]

\* cleaned = self._strip_code_fences(text); try: return json.loads(cleaned)
RpAfterDirect(r) ==
    LET cleaned == StripCodeFences(r.text)
        direct == JsonLoads(cleaned)
    IN  IF direct.ok
        THEN [r EXCEPT !.pc = "returned", !.cleaned = cleaned, !.value = direct.v]
        ELSE [r EXCEPT !.pc = "repair", !.cleaned = cleaned]

\* except json.JSONDecodeError: repaired = self._repair_json_text(text);
\* return json.loads(repaired)
RpAfterRepair(r) ==
    LET repaired == RepairJsonText(r.text)
        again == JsonLoads(repaired)
        r1 == [r EXCEPT !.repaired = repaired, !.used_repair = TRUE]
    IN  IF again.ok THEN [r1 EXCEPT !.pc = "returned", !.value = again.v]
        ELSE [r1 EXCEPT !.pc = "raised"]

\* ------------------------------------------------------------------------
\* Prompt compression
\* ------------------------------------------------------------------------

\* if len(s) < 400: return text
CompressThreshold == 400

\* How far around the threshold the lengths of the texts go, and how many
\* blanks a text may carry around its content.
LenSlack == 1
MaxBlanks == 2

\* Texts handed to _compress_text, by their length and the number of blanks
\* that strip() removes.
CompressTexts ==
    { [len |-> n + b, blanks |-> b] :
        n \in (CompressThreshold - LenSlack)..(CompressThreshold + LenSlack),
        b \in 0..MaxBlanks }

\* What `from tokenc import TokenClient` and TokenClient(api_key=...) do.
ClientOutcomes == {"ok", "raise"}

\* What client.compress_input and the reading of its response do: a
\* non-blank output, a blank output, no output, an exception.
CompressOutcomes == {"output", "blank", "none", "raise"}

\* A call of _compress_text(text) at its entry: tokenc_api_key, tokenc_enabled
\* and _tokenc_client (cached or not) are the client's fields; pc is "start" |
\* "import" | "construct" | "compress" | "returned" | "raised" | "idle";
\* sent is what generate_json puts in its payload; failed names the step of
\* the compressor that failed.
CmpStart(key, enabled, cached, text) ==
    [tokenc_api_key |-> key, tokenc_enabled |-> enabled, tokenc_client |-> cached,
     text |-> text, pc |-> "start", sent |-> "none", failed |-> "none",
     compress_calls |-> 0]

CmpIdle ==
    [CmpStart(FALSE, FALSE, FALSE, [len |-> 0, blanks |-> 0]) EXCEPT !.pc = "idle"]

CmpReturn(c, what) == [c EXCEPT !.pc = "returned", !.sent = what]

\* A length test that lets only texts above the threshold through.
CmpWithClient_StrictlyAbove(c) ==
    IF c.text.len - c.text.blanks <= CompressThreshold
    THEN CmpReturn(c, "original")
    ELSE [c EXCEPT !.pc = "compress"]

\* _compress_text once it holds a client: s = text.strip(); the length test.
CmpWithClient(c) ==
    IF c.text.len - c.text.blanks < CompressThreshold
    THEN CmpReturn(c, "original")
    ELSE [c EXCEPT !.pc = "compress"]

\* _get_tokenc_client up to the import.
CmpEnter(c) ==
    IF ~c.tokenc_api_key \/ ~c.tokenc_enabled THEN CmpReturn(c, "original")
    ELSE IF c.tokenc_client THEN CmpWithClient(c)
    ELSE [c EXCEPT !.pc = "import"]

\* try: from tokenc import TokenClient / except Exception: return None
CmpAfterImport(c, o) ==
    IF o = "raise" THEN CmpReturn([c EXCEPT !.failed = "import"], "original")
    ELSE [c EXCEPT !.pc = "construct"]

\* self._tokenc_client = TokenClient(api_key=self.tokenc_api_key), outside
\* any try: its exception leaves _compress_text and generate_json.
CmpAfterConstruct(c, o) ==
    IF o = "raise" THEN [c EXCEPT !.pc = "raised", !.failed = "construct"]
    ELSE CmpWithClient([c EXCEPT !.tokenc_client = TRUE])

\* The try block of _compress_text.
CmpAfterCompress(c, o) ==
    LET c1 == [c EXCEPT !.compress_calls = @ + 1]
    IN  CASE o = "output" -> CmpReturn(c1, "compressed")
          [] o \in {"blank", "none"} -> CmpReturn(c1, "original")
          [] o = "raise" -> CmpReturn([c1 EXCEPT !.failed = "compress"], "original")

\* ------------------------------------------------------------------------
\* SessionParameters and the difficulty controller
\* ------------------------------------------------------------------------

MinDifficulty == 1
MaxDifficulty == 5
\* history[-6:]
Lookback == 6
\* len(correctness) < 3, correctness[-3:]
Streak == 3

\* How far outside [MinDifficulty, MaxDifficulty] the input difficulties go.
DiffSlack == 2
\* Longest question_answer_history drawn.
MaxHist == 7

\* normalized() without its upper clamp.
Normalized_NoUpperClamp(s) ==
    LET d0 == s.difficulty_level
    IN  [s EXCEPT !.difficulty_level = IF d0 < MinDifficulty THEN MinDifficulty ELSE d0]

\* SessionParameters.normalized: int(difficulty_level) of a Python int is
\* that int; then the two clamps; dataclasses.replace keeps the other fields.
Normalized(s) ==
    LET d0 == s.difficulty_level
        d1 == IF d0 < MinDifficulty THEN MinDifficulty ELSE d0
        d2 == IF d1 > MaxDifficulty THEN MaxDifficulty ELSE d1
    IN  [s EXCEPT !.difficulty_level = d2]

\* seq[-n:]
LastN(seq, n) ==
    IF Len(seq) <= n THEN seq ELSE SubSeq(seq, Len(seq) - n + 1, Len(seq))

RECURSIVE SelectCorrect(_)
\* [bool(h.get("correct")) for h in recent if "correct" in h]
SelectCorrect(hs) ==
    IF hs = << >> THEN << >>
    ELSE IF Head(hs).has_correct
         THEN <<Head(hs).correct>> \o SelectCorrect(Tail(hs))
         ELSE SelectCorrect(Tail(hs))

AllTrue(bs) == \A i \in 1..Len(bs) : bs[i]
AnyTrue(bs) == \E i \in 1..Len(bs) : bs[i]

\* adjust_session_parameters with any() where the code has all().
AdjustSessionParameters_AnyUp(s, history) ==
    LET sn == Normalized(s)
        correctness == SelectCorrect(LastN(history, Lookback))
        last3 == LastN(correctness, Streak)
        d0 == sn.difficulty_level
        d1 == IF AnyTrue(last3) THEN d0 + 1 ELSE d0 - 1
        d2 == IF d1 < MinDifficulty THEN MinDifficulty ELSE d1
        d3 == IF d2 > MaxDifficulty THEN MaxDifficulty ELSE d2
    IN  IF ~sn.adaptive THEN sn
        ELSE IF Len(correctness) < Streak THEN sn
        ELSE [sn EXCEPT !.difficulty_level = d3]

\* adjust_session_parameters without the early return for adaptive=false.
AdjustSessionParameters_IgnoreAdaptive(s, history) ==
    LET sn == Normalized(s)
        correctness == SelectCorrect(LastN(history, Lookback))
        last3 == LastN(correctness, Streak)
        d0 == sn.difficulty_level
        d1 == IF AllTrue(last3) THEN d0 + 1
              ELSE IF ~AnyTrue(last3) THEN d0 - 1
              ELSE d0
        d2 == IF d1 < MinDifficulty THEN MinDifficulty ELSE d1
        d3 == IF d2 > MaxDifficulty THEN MaxDifficulty ELSE d2
    IN  IF Len(correctness) < Streak THEN sn
        ELSE [sn EXCEPT !.difficulty_level = d3]

\* adjust_session_parameters reading the whole history, not history[-6:].
AdjustSessionParameters_WholeHistory(s, history) ==
    LET sn == Normalized(s)
        correctness == SelectCorrect(history)
        last3 == LastN(correctness, Streak)
        d0 == sn.difficulty_level
        d1 == IF AllTrue(last3) THEN d0 + 1
              ELSE IF ~AnyTrue(last3) THEN d0 - 1
              ELSE d0
        d2 == IF d1 < MinDifficulty THEN MinDifficulty ELSE d1
        d3 == IF d2 > MaxDifficulty THEN MaxDifficulty ELSE d2
    IN  IF ~sn.adaptive THEN sn
        ELSE IF Len(correctness) < Streak THEN sn
        ELSE [sn EXCEPT !.difficulty_level = d3]

\* adjust_session_parameters without the two clamps after the step.
AdjustSessionParameters_NoClamp(s, history) ==
    LET sn == Normalized(s)
        correctness == SelectCorrect(LastN(history, Lookback))
        last3 == LastN(correctness, Streak)
        d0 == sn.difficulty_level
        d1 == IF AllTrue(last3) THEN d0 + 1
              ELSE IF ~AnyTrue(last3) THEN d0 - 1
              ELSE d0
    IN  IF ~sn.adaptive THEN sn
        ELSE IF Len(correctness) < Streak THEN sn
        ELSE [sn EXCEPT !.difficulty_level = d1]

\* SophiAIUtil.adjust_session_parameters
AdjustSessionParameters(s, history) ==
    LET sn == Normalized(s)
        recent == LastN(history, Lookback)
        correctness == SelectCorrect(recent)
        last3 == LastN(correctness, Streak)
        d0 == sn.difficulty_level
        d1 == IF AllTrue(last3) THEN d0 + 1
              ELSE IF ~AnyTrue(last3) THEN d0 - 1
              ELSE d0
        d2 == IF d1 < MinDifficulty THEN MinDifficulty ELSE d1
        d3 == IF d2 > MaxDifficulty THEN MaxDifficulty ELSE d2
    IN  IF ~sn.adaptive THEN sn
        ELSE IF Len(correctness) < Streak THEN sn
        ELSE [sn EXCEPT !.difficulty_level = d3]

\* One history entry: a dict with or without the key "correct".
HistoryEntries ==
    { [has_correct |-> FALSE, correct |-> FALSE],
      [has_correct |-> TRUE,  correct |-> TRUE],
      [has_correct |-> TRUE,  correct |-> FALSE] }

Histories == UNION { [1..n -> HistoryEntries] : n \in 0..MaxHist }

DifficultyInputs == (MinDifficulty - DiffSlack)..(MaxDifficulty + DiffSlack)

\* cumulative / focus_concepts / unit_focus of the sessions drawn.
SessionShapes ==
    { [cumulative |-> FALSE, focus_concepts |-> << >>, unit_focus |-> NoneVal],
      [cumulative |-> TRUE,  focus_concepts |-> << <<"c">> >>, unit_focus |-> <<"u">>] }

\* The place of a SessionParameters that is not there (yet).
NoSession ==
    [difficulty_level |-> 0, cumulative |-> FALSE, adaptive |-> FALSE,
     focus_concepts |-> << >>, unit_focus |-> NoneVal]

Sessions ==
    { [difficulty_level |-> d, cumulative |-> sh.cumulative, adaptive |-> a,
       focus_concepts |-> sh.focus_concepts, unit_focus |-> sh.unit_focus] :
      d \in DifficultyInputs, a \in BOOLEAN, sh \in SessionShapes }

\* ------------------------------------------------------------------------
\* GeminiClient.generate_json: the request loop and the json fix call
\* ------------------------------------------------------------------------

\* for attempt in range(3)
RequestBudget == 3
\* e.code == 429
RateLimited == 429
\* min(65.0, ...), in milliseconds
MaxSleepMs == 65000
\* max(1.0, delay), in milliseconds
MinSleepMs == 1000
\* float(2 ** attempt) * 2.0, in milliseconds
RateBackoffMs == 2000
\* float(2 ** attempt) * 1.0, in milliseconds
EmptyBackoffMs == 1000

\* The largest retry hint a server body carries here, in milliseconds.
MaxHintMs == 900000

\* retry_delay_seconds returning None.
NoHint == -1

\* Retry hints (milliseconds) found in an error body.
HintValues == {0, 500, MinSleepMs, MaxSleepMs, MaxSleepMs + 1, MaxHintMs}

\* An HTTP error body, by what retry_delay_seconds finds in it: `readable` is
\* false when e.read() fails or the body is empty, retry_info is the delay of
\* an error.details[] RetryInfo entry, retry_text the "retry in Ns" figure.
ErrorBodies ==
    { [readable |-> FALSE, retry_info |-> NoHint, retry_text |-> NoHint] }
    \cup { [readable |-> TRUE, retry_info |-> i, retry_text |-> x] :
             i \in {NoHint} \cup HintValues, x \in {NoHint, 3000} }

\* body = None
NoBody == [readable |-> FALSE, retry_info |-> NoHint, retry_text |-> NoHint]

\* Text the model answers with, by what _parse_model_json makes of it:
\* "direct" parses once the fences are stripped, "repaired" parses after
\* _repair_json_text, "fail" raises json.JSONDecodeError; "blank" is text
\* that strip() leaves empty.
ModelTexts ==
    { [id |-> "t1", parse |-> "direct"],
      [id |-> "t2", parse |-> "repaired"],
      [id |-> "t3", parse |-> "fail"],
      [id |-> "t4", parse |-> "fail"],
      [id |-> "t5", parse |-> "blank"] }

\* text = ""
NoText == [id |-> "none", parse |-> "none"]

\* What one urlopen of the request yields: a body with text parts, a body
\* without any (or without candidates, or not JSON), an HTTPError, or another
\* exception of urlopen (URLError, timeout).
Responses ==
    { [kind |-> "text", text |-> x, code |-> 200, body |-> NoBody] : x \in ModelTexts }
    \cup { [kind |-> "empty", text |-> NoText, code |-> 200, body |-> NoBody] }
    \cup { [kind |-> "http", text |-> NoText, code |-> c, body |-> b] :
             c \in {RateLimited, 500}, b \in ErrorBodies }
    \cup { [kind |-> "transport", text |-> NoText, code |-> 0, body |-> NoBody] }

NoResponse == [kind |-> "none", text |-> NoText, code |-> 0, body |-> NoBody]

NoError == [tag |-> "none", code |-> 0, text |-> NoText]

Pow2(n) == IF n = 0 THEN 1 ELSE IF n = 1 THEN 2 ELSE 4

Min(a, b) == IF a < b THEN a ELSE b
Max(a, b) == IF a > b THEN a ELSE b

\* retry_delay_seconds(body): None, or the hint in milliseconds.
RetryDelaySeconds(body) ==
    IF ~body.readable THEN NoHint
    ELSE IF body.retry_info # NoHint THEN body.retry_info
    ELSE body.retry_text

\* The argument of time.sleep without its two clamps.
RateLimitSleep_Unclamped(body, att) ==
    LET seconds == RetryDelaySeconds(body)
    IN  IF seconds # NoHint /\ seconds # 0 THEN seconds ELSE Pow2(att) * RateBackoffMs

\* delay = retry_delay_seconds(body) or float(2 ** attempt) * 2.0
\* time.sleep(min(65.0, max(1.0, delay)))
RateLimitSleep(body, att) ==
    LET seconds == RetryDelaySeconds(body)
        delay == IF seconds # NoHint /\ seconds # 0 THEN seconds ELSE Pow2(att) * RateBackoffMs
    IN  Min(MaxSleepMs, Max(MinSleepMs, delay))

\* A sleep that does not grow with the attempt.
EmptySleep_Flat(att) == EmptyBackoffMs

\* time.sleep(float(2 ** attempt) * 1.0)
EmptySleep(att) == Pow2(att) * EmptyBackoffMs

\* ------------------------------------------------------------------------
\* The oracle gateway (wolfram_checker.py) and the collaborators' answers
\* ------------------------------------------------------------------------

\* "Wolfram|Alpha did not understand"
NotUnderstoodPhrase ==
    <<"W","o","l","f","r","a","m","|","A","l","p","h","a"," ",
      "d","i","d"," ","n","o","t"," ","u","n","d","e","r","s","t","a","n","d">>

\* "did not understand"
DidNotUnderstand == SubSeq(NotUnderstoodPhrase, 15, Len(NotUnderstoodPhrase))

\* Bodies the oracle's server sends: a result, an empty one, a blank one, the
\* not-understood message, and a result that holds the words "did not
\* understand" without the product name before them.
BodyResult == <<"4", "2", "\n">>
BodyBlank == <<" ", "\n">>
BodyNotUnderstood == NotUnderstoodPhrase \o <<" ","y","o","u","r"," ","i","n","p","u","t">>
BodyWordsOnly == <<"h","e"," ">> \o DidNotUnderstand

\* What the server does with one GET: 200, an HTTPError whose body may be
\* unreadable (NoneVal), or an exception that is not an HTTPError.
OracleReplies ==
    { [kind |-> "ok", code |-> 200, body |-> b] :
        b \in {BodyResult, EmptyStr, BodyBlank, BodyWordsOnly, BodyNotUnderstood} }
    \cup { [kind |-> "http", code |-> c, body |-> b] :
        c \in {400, 501, 503}, b \in {NoneVal, EmptyStr, BodyNotUnderstood} }
    \cup { [kind |-> "transport", code |-> 0, body |-> NoneVal] }

\* WolframAlphaChecker.result_text(query) when the server answers `reply`:
\* `raised` when the exception leaves result_text, else the value returned;
\* `requested` tells whether a request was made at all.
ResultText(query, reply) ==
    IF Strip(query) = EmptyStr
    THEN [raised |-> FALSE, value |-> NoneVal, requested |-> FALSE]
    ELSE CASE reply.kind = "ok" ->
                [raised |-> FALSE, value |-> Strip(reply.body), requested |-> TRUE]
           [] reply.kind = "http" /\ reply.code \in {400, 501} ->
                [raised |-> FALSE,
                 value |-> IF Truthy(reply.body) THEN Strip(reply.body) ELSE NoneVal,
                 requested |-> TRUE]
           [] OTHER ->
                [raised |-> TRUE, value |-> NoneVal, requested |-> TRUE]

\* best_effort_answer with the substring test dropped.
BestEffortAnswer_NoPhraseTest(res) ==
    IF ~Truthy(res) THEN [ok |-> FALSE, result |-> NoneVal]
    ELSE [ok |-> TRUE, result |-> res]

\* WolframAlphaChecker.best_effort_answer, from the value of result_text.
BestEffortAnswer(res) ==
    IF ~Truthy(res) THEN [ok |-> FALSE, result |-> NoneVal]
    ELSE IF Contains(res, NotUnderstoodPhrase) THEN [ok |-> FALSE, result |-> res]
    ELSE [ok |-> TRUE, result |-> res]

\* What a call of generate_json hands to its caller: it raises, or returns
\* the parsed JSON value. shape is "raise" | "dict" | "list_dict" (a list
\* whose first dict is d) | "list_str" (a list that starts with the str s) |
\* "str" (the str s) | "other" (a number, a list of numbers, ...).
JsonRaise == [shape |-> "raise"]
\* generate_json raising "Gemini did not return valid JSON": the text stayed
\* unparseable after the repair and, where allowed, after the fix call.
JsonUnparseable == [shape |-> "raise", tag |-> "invalid_json"]
JsonDict(d) == [shape |-> "dict", d |-> d]
JsonListDict(d) == [shape |-> "list_dict", d |-> d]
JsonListStr(x) == [shape |-> "list_str", s |-> x]
JsonStr(x) == [shape |-> "str", s |-> x]
JsonOther == [shape |-> "other"]

\* The answers to the classification call: {"is_math": b} (an absent key
\* reads as false), a value that is no dict, or an exception.
ClassifierOutcomes ==
    { JsonDict([is_math |-> b]) : b \in BOOLEAN } \cup {JsonOther, JsonRaise}

\* SophiAIUtil._is_math_related after its blank test: bool(out.get("is_math")),
\* or False when generate_json raises or out has no .get.
IsMathRelated(out) ==
    IF out.shape = "dict" THEN out.d.is_math ELSE FALSE

\* _is_math_related returns False for a blank context before any call.
ClassifierCalls(context_text) == Truthy(context_text) /\ Strip(context_text) # EmptyStr

\* Longest context text drawn for the classifier.
MaxContextLen == 4

\* Context texts: None, and the texts of blanks and letters up to the bound.
ContextTexts ==
    {NoneVal} \cup UNION { [1..n -> {" ", "m"}] : n \in 0..MaxContextLen }

\* A call of _is_math_related at its entry: the argument, pc ("start" |
\* "call" | "returned" | "raised" | "idle"), the value returned, and the
\* record of the run: the classification calls made and the shape of the
\* answer.
ClsStart(context_text) ==
    [context_text |-> context_text, pc |-> "start", result |-> FALSE,
     calls |-> 0, outcome |-> "none"]

ClsIdle == [ClsStart(NoneVal) EXCEPT !.pc = "idle"]

ClsReturn(c, b) == [c EXCEPT !.pc = "returned", !.result = b]

\* `if not context_text or not context_text.strip(): return False`
ClsEnter(c) ==
    IF ClassifierCalls(c.context_text) THEN [c EXCEPT !.pc = "call"]
    ELSE ClsReturn(c, FALSE)

\* A handler that lets the exception through.
ClsExcept_Propagate(c) == [c EXCEPT !.pc = "raised"]

\* `except Exception as e: print(...); return False`
ClsExcept(c) == ClsReturn(c, FALSE)

\* The try block: generate_json, then bool(out.get("is_math")).
ClsAfterCall(c, out) ==
    LET c1 == [c EXCEPT !.calls = @ + 1, !.outcome = out.shape]
    IN  IF out.shape = "dict" THEN ClsReturn(c1, IsMathRelated(out))
        ELSE ClsExcept(c1)

\* ------------------------------------------------------------------------
\* The validators
\* ------------------------------------------------------------------------

\* Values of a str-or-null field of a model answer.
QueryValues == {NoneVal, <<" ">>, <<" ", "Q">>}

NoDetails == [answer |-> NoneVal, note |-> "none"]

\* ValidationResult(ok, wolfram_query, wolfram_result, details)
ValidationResult(ok, q, r, details) ==
    [ok |-> ok, wolfram_query |-> q, wolfram_result |-> r, details |-> details]

NoValidation == ValidationResult(FALSE, NoneVal, NoneVal, NoDetails)

\* Answers of the model to validate_question_has_answer without the oracle.
HasAnswerOutcomes ==
    { JsonDict([ok |-> k, answer |-> a]) : k \in BOOLEAN, a \in {NoneVal, <<" ">>, <<"A", " ">>} }
    \cup { JsonListDict([ok |-> TRUE, answer |-> <<"A", " ">>]), JsonStr(<<"A">>), JsonOther, JsonRaise }

\* Answers of the model to the query-conversion call of the oracle mode.
ToQueryOutcomes ==
    { JsonDict([wolfram_query |-> q]) : q \in QueryValues }
    \cup { JsonListDict([wolfram_query |-> <<" ", "Q">>]) }
    \cup { JsonStr(x) : x \in {<<" ">>, <<"Q", " ">>} }
    \cup { JsonListStr(<<"Q">>), JsonOther, JsonRaise }

\* Answers of the model to validate_hint_against_step.
HintStepOutcomes ==
    { JsonDict([is_consistent |-> c, wolfram_query |-> q]) : c \in BOOLEAN, q \in QueryValues }
    \cup { JsonListDict([is_consistent |-> TRUE, wolfram_query |-> NoneVal]), JsonRaise }

\* coerce_dict(obj) is not None
Coercible(out) == out.shape \in {"dict", "list_dict"}

\* validate_question_has_answer, use_wolfram false, from the answer `out` of
\* its generate_json call (an exception of that call leaves the function).
\* details is the dict that the code packs with json.dumps and its caller
\* unpacks with json.loads.
HasAnswerDirect(out) ==
    IF ~Coercible(out)
    THEN ValidationResult(FALSE, NoneVal, NoneVal, [answer |-> NoneVal, note |-> "explanation"])
    ELSE ValidationResult(out.d.ok, NoneVal, NoneVal,
            [answer |-> IF out.d.answer = NoneVal THEN NoneVal ELSE Strip(out.d.answer),
             note |-> "explanation"])

\* The wolfram_query that validate_question_has_answer takes from `out`.
QueryOf(out) ==
    CASE Coercible(out) -> StrOrEmpty(out.d.wolfram_query)
      [] out.shape = "str" -> Strip(out.s)
      [] out.shape = "list_str" -> Strip(out.s)
      [] OTHER -> EmptyStr

\* A validator call. op is "has_answer" | "hint_step"; pc is "start" |
\* "classify" | "model" | "oracle" | "returned" | "raised" | "idle";
\* use_wolfram_arg is the parameter as passed and use_wolfram the local,
\* which the classifier may clear; out is the
\* model's answer; result the ValidationResult returned; oracle_text the
\* value result_text returned, seen is TRUE once it returned one.
ValStart(op, question, uw, configured) ==
    [op |-> op, question |-> question, use_wolfram_arg |-> uw, use_wolfram |-> uw,
     wolfram |-> configured,
     pc |-> "start", out |-> JsonOther, wolfram_query |-> EmptyStr,
     result |-> NoValidation, oracle_text |-> NoneVal, seen |-> FALSE,
     classifier_calls |-> 0, model_calls |-> 0, oracle_calls |-> 0]

ValIdle == [ValStart("none", EmptyStr, FALSE, FALSE) EXCEPT !.pc = "idle"]

ValReturn(v, res) == [v EXCEPT !.pc = "returned", !.result = res]

\* An entry that asks the classifier whatever use_wolfram says.
ValEnter_AlwaysClassify(v) ==
    IF ClassifierCalls(v.question)
    THEN [v EXCEPT !.pc = "classify"]
    ELSE [v EXCEPT !.pc = "model", !.use_wolfram = FALSE]

\* `if use_wolfram and not self._is_math_related(question)`: the classifier
\* is asked only for a question that is not blank; a blank one is no math.
ValEnter(v) ==
    IF v.use_wolfram /\ ClassifierCalls(v.question)
    THEN [v EXCEPT !.pc = "classify"]
    ELSE [v EXCEPT !.pc = "model", !.use_wolfram = FALSE]

ValAfterClassifier(v, c) ==
    [v EXCEPT !.pc = "model", !.use_wolfram = IsMathRelated(c),
              !.classifier_calls = @ + 1]

\* A result whose ok also needs an oracle result that was understood.
HintStepResult_OracleDecides(out, q, r) ==
    ValidationResult(out.d.is_consistent /\ BestEffortAnswer(r).ok,
                     IF q = EmptyStr THEN NoneVal ELSE q, r, NoDetails)

\* validate_hint_against_step always reports the model's own judgment.
HintStepResult(out, q, r) ==
    ValidationResult(out.d.is_consistent, IF q = EmptyStr THEN NoneVal ELSE q, r, NoDetails)

\* An exception of the query-conversion call that leaves the validator.
ValModelFailed_Raise(v) == [v EXCEPT !.pc = "raised"]

\* except Exception as e: return ValidationResult(ok=False, ..., details=str(e))
ValModelFailed(v) ==
    ValReturn(v, ValidationResult(FALSE, NoneVal, NoneVal,
                                  [answer |-> NoneVal, note |-> "error"]))

\* The model call of either validator and what follows it up to the oracle.
ValAfterModel(v, out) ==
    LET v1 == [v EXCEPT !.model_calls = @ + 1, !.out = out]
    IN  IF v.op = "has_answer"
        THEN IF ~v.use_wolfram
             THEN IF out.shape = "raise" THEN [v1 EXCEPT !.pc = "raised"]
                  ELSE ValReturn(v1, HasAnswerDirect(out))
             ELSE IF out.shape = "raise"
                  THEN ValModelFailed(v1)
                  ELSE IF QueryOf(out) = EmptyStr
                  THEN ValReturn(v1, ValidationResult(FALSE, NoneVal, NoneVal,
                                        [answer |-> NoneVal, note |-> "missing_wolfram_query"]))
                  ELSE IF ~v.wolfram THEN [v1 EXCEPT !.pc = "raised"]
                  ELSE [v1 EXCEPT !.pc = "oracle", !.wolfram_query = QueryOf(out)]
        ELSE \* out.get(...) needs a dict
             IF out.shape # "dict" THEN [v1 EXCEPT !.pc = "raised"]
             ELSE LET q == IF Truthy(out.d.wolfram_query)
                           THEN Strip(out.d.wolfram_query) ELSE EmptyStr
                  IN  IF v.use_wolfram /\ q # EmptyStr
                      THEN IF ~v.wolfram THEN [v1 EXCEPT !.pc = "raised"]
                           ELSE [v1 EXCEPT !.pc = "oracle", !.wolfram_query = q]
                      ELSE ValReturn(v1, HintStepResult(out, q, NoneVal))

\* The oracle query of either validator.
ValAfterOracle(v, reply) ==
    LET rt == ResultText(v.wolfram_query, reply)
        v1 == [v EXCEPT !.oracle_calls = @ + 1]
        v2 == [v1 EXCEPT !.oracle_text = rt.value, !.seen = TRUE]
        be == BestEffortAnswer(rt.value)
    IN  IF rt.raised THEN [v1 EXCEPT !.pc = "raised"]
        ELSE IF v.op = "has_answer"
        THEN ValReturn(v2, ValidationResult(be.ok, v.wolfram_query, be.result, NoDetails))
        ELSE ValReturn(v2, HintStepResult(v.out, v.wolfram_query, rt.value))

\* ------------------------------------------------------------------------
\* The question generation engine
\* ------------------------------------------------------------------------

\* Largest max_attempts drawn for generate_question.
MaxAttempts == 3

\* x or y, for two values that are None or a str (or a list)
OrElse(x, y) == IF x # NoneVal /\ x # << >> THEN x ELSE y

RECURSIVE JoinWith(_, _)
\* sep.join(parts)
JoinWith(parts, sep) ==
    IF parts = << >> THEN << >>
    ELSE IF Len(parts) = 1 THEN parts[1]
    ELSE parts[1] \o sep \o JoinWith(Tail(parts), sep)

\* An effective session built from the session as given, not adjusted.
EffectiveSession_NotAdjusted(s, history, unit_to_focus, necessary_concepts) ==
    Normalized([Normalized(s) EXCEPT
                  !.unit_focus = OrElse(unit_to_focus, s.unit_focus),
                  !.focus_concepts = OrElse(necessary_concepts, s.focus_concepts)])

\* dataclasses.replace(adjust_session_parameters(session, history),
\*     unit_focus=unit_to_focus or session.unit_focus,
\*     focus_concepts=list(necessary_concepts or session.focus_concepts)).normalized()
EffectiveSession(s, history, unit_to_focus, necessary_concepts) ==
    Normalized([AdjustSessionParameters(s, history) EXCEPT
                  !.unit_focus = OrElse(unit_to_focus, s.unit_focus),
                  !.focus_concepts = OrElse(necessary_concepts, s.focus_concepts)])

\* context_str: the parts "Class: ...", "Unit: ...", "Concepts: ..." that are
\* there, joined by a space.
ContextStr(class_name, es) ==
    LET p1 == IF Truthy(class_name)
              THEN << <<"C","l","a","s","s",":"," ">> \o class_name >> ELSE << >>
        p2 == IF Truthy(es.unit_focus)
              THEN << <<"U","n","i","t",":"," ">> \o es.unit_focus >> ELSE << >>
        p3 == IF es.focus_concepts # << >>
              THEN << <<"C","o","n","c","e","p","t","s",":"," ">>
                        \o JoinWith(es.focus_concepts, <<",", " ">>) >>
              ELSE << >>
    IN  JoinWith(p1 \o p2 \o p3, <<" ">>)

\* The "metadata" of a generation answer: no dict (absent, a str, ...), or a
\* dict that may hold the keys difficulty_level and verified_with_wolfram.
NotADict ==
    [is_dict |-> FALSE, has_difficulty |-> FALSE, difficulty_level |-> 0,
     has_verified |-> FALSE, verified_with_wolfram |-> FALSE]
MetadataDict(has_difficulty, d, has_verified, v) ==
    [is_dict |-> TRUE, has_difficulty |-> has_difficulty, difficulty_level |-> d,
     has_verified |-> has_verified, verified_with_wolfram |-> v]

\* A difficulty_level the model writes that lies outside [1,5].
ModelDifficulty == 9

RawMetadata ==
    { NotADict,
      MetadataDict(FALSE, 0, FALSE, FALSE),
      MetadataDict(TRUE, ModelDifficulty, TRUE, TRUE),
      MetadataDict(FALSE, 0, TRUE, FALSE) }

\* Answers of the model to a generation call.
GenerationOutcomes ==
    { JsonDict([question |-> q, wolfram_query |-> w, answer |-> a, metadata |-> NotADict]) :
        q \in {NoneVal, <<" ">>, <<" ", "Q", "?">>},
        w \in {NoneVal, <<"W", " ">>},
        a \in {NoneVal, <<"A">>} }
    \cup { JsonDict([question |-> <<" ", "Q", "?">>, wolfram_query |-> <<"W", " ">>,
                     answer |-> <<"A">>, metadata |-> m]) : m \in RawMetadata }
    \cup { JsonListDict([question |-> <<"Q", "?">>, wolfram_query |-> <<"W">>,
                         answer |-> NoneVal, metadata |-> NotADict]),
           JsonOther, JsonRaise, JsonUnparseable }

\* Answers of the model to the validation-prompt call.
ValidationPromptOutcomes ==
    { JsonDict([validation_prompt |-> v]) : v \in {NoneVal, <<"V", " ">>} }
    \cup { JsonOther, JsonRaise }

NoLastError == [tag |-> "None", detail |-> NoneVal]

\* The metadata returned: raw_metadata when it is a dict, else {}, with
\* metadata.setdefault("difficulty_level", effective_session.difficulty_level)
\* and metadata.setdefault("verified_with_wolfram", bool(use_wolfram)); the
\* keys concepts, unit, cumulative and adaptive are set the same way.
Metadata(raw, es, use_wolfram) ==
    [difficulty_level |-> IF raw.is_dict /\ raw.has_difficulty
                          THEN raw.difficulty_level ELSE es.difficulty_level,
     verified_with_wolfram |-> IF raw.is_dict /\ raw.has_verified
                               THEN raw.verified_with_wolfram ELSE use_wolfram]

NoMetadata == [difficulty_level |-> 0, verified_with_wolfram |-> FALSE]

\* GeneratedQuestion(question, answer, wolfram_query, validation_prompt, metadata)
GeneratedQuestion(q, a, w, v, m) ==
    [question |-> q, answer |-> a, wolfram_query |-> w, validation_prompt |-> v,
     metadata |-> m]

NoQuestion == GeneratedQuestion(EmptyStr, EmptyStr, EmptyStr, EmptyStr, NoMetadata)

\* A call of generate_question at its entry. The fields up to `wolfram` are
\* the arguments (use_wolfram_arg the caller's use_wolfram, wolfram whether
\* self.wolfram is set); then the locals of the code; pc is "start" |
\* "classify" | "generate" | "recover" | "oracle" | "validation_prompt" |
\* "returned" | "raised" | "idle"; error.kind is "exhausted" for the
\* RuntimeError after the loop and "collaborator" for an exception of a
\* call made inside. The last fields record the run: the calls made, the
\* failure tag of each failed attempt (tags), what the classifier said
\* ("not_called" | "true" | "false"), the latest text of the oracle,
\* whether every generation answer so far was a dict without its required
\* field (all_omitted), the session.difficulty_level written into the
\* prompt of each generation call (prompts) and the "extra" of each of
\* these prompts: {"attempt": attempt, "previous_issue": last_error}.
GQStart(s, history, class_name, unit_to_focus, necessary_concepts, n, uw, configured) ==
    [session |-> s, question_answer_history |-> history, class_name |-> class_name,
     unit_to_focus |-> unit_to_focus, necessary_concepts |-> necessary_concepts,
     max_attempts |-> n, use_wolfram_arg |-> uw, wolfram |-> configured,
     effective_session |-> NoSession, context_str |-> EmptyStr, use_wolfram |-> uw,
     attempt |-> 0, last_error |-> NoLastError,
     question |-> EmptyStr, wolfram_query |-> EmptyStr, answer_llm |-> EmptyStr,
     final_answer |-> EmptyStr, raw_metadata |-> NotADict,
     pc |-> "start", result |-> NoQuestion,
     error |-> [kind |-> "none", message |-> NoLastError],
     gen_calls |-> 0, classifier_calls |-> 0, validator_calls |-> 0,
     oracle_calls |-> 0, vp_calls |-> 0,
     tags |-> << >>, classified |-> "not_called", oracle_text |-> NoneVal,
     all_omitted |-> TRUE, prompts |-> << >>, extras |-> << >>]

GQIdle ==
    [GQStart(NoSession, << >>, NoneVal, NoneVal, NoneVal, 0, FALSE, FALSE)
       EXCEPT !.pc = "idle"]

\* raise RuntimeError(f"Failed to generate verifiable question after ...: {last_error}")
GQExhausted(g) ==
    [g EXCEPT !.pc = "raised", !.error = [kind |-> "exhausted", message |-> g.last_error]]

\* An exception of a collaborator (generate_json, _require_wolfram,
\* result_text, a missing .get) that generate_question does not catch.
GQRaise(g) ==
    [g EXCEPT !.pc = "raised", !.error = [kind |-> "collaborator", message |-> NoLastError]]

\* An exception of the generation call, which generate_question does not
\* catch; the record keeps whether it was the error for unparseable text.
GQRaiseFrom(g, out) ==
    [g EXCEPT !.pc = "raised",
              !.error = [kind |-> "collaborator",
                         message |-> [tag |-> IF out = JsonUnparseable
                                              THEN "invalid_json" ELSE "None",
                                      detail |-> NoneVal]]]

\* for attempt in range(1, max_attempts + 1): the first pass, if there is one
GQEnterLoop(g) ==
    IF g.max_attempts >= 1
    THEN [g EXCEPT !.pc = "generate", !.attempt = 1]
    ELSE GQExhausted(g)

\* A failed attempt whose tag is kept only if it is the first one.
GQFail_KeepFirst(g, tag, detail) ==
    LET e == IF g.last_error = NoLastError THEN [tag |-> tag, detail |-> detail]
             ELSE g.last_error
        g1 == [g EXCEPT !.last_error = e, !.tags = Append(@, tag)]
    IN  IF g.attempt < g.max_attempts
        THEN [g1 EXCEPT !.pc = "generate", !.attempt = @ + 1]
        ELSE GQExhausted(g1)

\* A failed attempt in a loop that runs one pass too many.
GQFail_OneMore(g, tag, detail) ==
    LET g1 == [g EXCEPT !.last_error = [tag |-> tag, detail |-> detail],
                        !.tags = Append(@, tag)]
    IN  IF g.attempt < g.max_attempts + 1
        THEN [g1 EXCEPT !.pc = "generate", !.attempt = @ + 1]
        ELSE GQExhausted(g1)

\* last_error = <tag>; continue -- and the raise after the last pass
GQFail(g, tag, detail) ==
    LET g1 == [g EXCEPT !.last_error = [tag |-> tag, detail |-> detail],
                        !.tags = Append(@, tag)]
    IN  IF g.attempt < g.max_attempts
        THEN [g1 EXCEPT !.pc = "generate", !.attempt = @ + 1]
        ELSE GQExhausted(g1)

\* The entry with an empty context treated as not eligible for the oracle.
GQEnter_EmptyNotEligible(g) ==
    LET es == EffectiveSession(g.session, g.question_answer_history,
                               g.unit_to_focus, g.necessary_concepts)
        ctx == IF g.use_wolfram_arg THEN ContextStr(g.class_name, es) ELSE EmptyStr
        g1 == [g EXCEPT !.effective_session = es, !.context_str = ctx]
    IN  IF g.use_wolfram_arg /\ ClassifierCalls(ctx)
        THEN [g1 EXCEPT !.pc = "classify"]
        ELSE GQEnterLoop([g1 EXCEPT !.use_wolfram = FALSE])

\* Lines 812-829 up to the classification call:
\* `if context_str and not self._is_math_related(context_str)` leaves
\* use_wolfram as passed when context_str is empty.
GQEnter(g) ==
    LET es == EffectiveSession(g.session, g.question_answer_history,
                               g.unit_to_focus, g.necessary_concepts)
        ctx == IF g.use_wolfram_arg THEN ContextStr(g.class_name, es) ELSE EmptyStr
        g1 == [g EXCEPT !.effective_session = es, !.context_str = ctx]
    IN  IF g.use_wolfram_arg /\ Truthy(ctx)
        THEN IF ClassifierCalls(ctx)
             THEN [g1 EXCEPT !.pc = "classify"]
             ELSE GQEnterLoop([g1 EXCEPT !.use_wolfram = FALSE, !.classified = "false"])
        ELSE GQEnterLoop(g1)

GQAfterClassifier(g, c) ==
    GQEnterLoop([g EXCEPT !.use_wolfram = IsMathRelated(c),
                          !.classified = IF IsMathRelated(c) THEN "true" ELSE "false",
                          !.classifier_calls = @ + 1])

\* A generation answer that is a dict (or holds one) without a usable
\* question, or in oracle mode without a usable wolfram_query.
OmitsRequired(g, out) ==
    /\ Coercible(out)
    /\ \/ StrOrEmpty(out.d.question) = EmptyStr
       \/ g.use_wolfram /\ StrOrEmpty(out.d.wolfram_query) = EmptyStr

\* Lines 1018-1026 up to the oracle query: the answer is the model's, or the
\* oracle is to be asked (self._require_wolfram() raises without one).
GQResolve(g) ==
    IF g.use_wolfram
    THEN IF g.wolfram THEN [g EXCEPT !.pc = "oracle"] ELSE GQRaise(g)
    ELSE [g EXCEPT !.pc = "validation_prompt", !.final_answer = g.answer_llm]

\* Lines 968-1016: the generation call and the acceptance checks on its answer.
GQAfterGeneration(g, out) ==
    LET g1 == [g EXCEPT !.gen_calls = @ + 1,
                        !.all_omitted = @ /\ OmitsRequired(g, out),
                        !.prompts = Append(@, g.effective_session.difficulty_level),
                        !.extras = Append(@, [attempt |-> g.attempt,
                                              previous_issue |-> g.last_error])]
    IN  IF out.shape = "raise" THEN GQRaiseFrom(g1, out)
        ELSE IF ~Coercible(out) THEN GQFail(g1, "invalid_output_shape", NoneVal)
        ELSE LET question == StrOrEmpty(out.d.question)
                 wolfram_query == StrOrEmpty(out.d.wolfram_query)
                 answer_llm == StrOrEmpty(out.d.answer)
                 g2 == [g1 EXCEPT !.question = question,
                                  !.wolfram_query = wolfram_query,
                                  !.answer_llm = answer_llm,
                                  !.raw_metadata = out.d.metadata]
             IN  IF question = EmptyStr THEN GQFail(g1, "missing_question", NoneVal)
                 ELSE IF g.use_wolfram /\ wolfram_query = EmptyStr
                 THEN GQFail(g1, "missing_wolfram_query", NoneVal)
                 ELSE IF ~g.use_wolfram /\ answer_llm = EmptyStr
                 THEN [g2 EXCEPT !.pc = "recover"]
                 ELSE GQResolve(g2)

\* A recovery that takes the validator's answer whatever its ok says.
GQAfterRecovery_IgnoreOk(g, out) ==
    LET g1 == [g EXCEPT !.validator_calls = @ + 1]
        v == HasAnswerDirect(out)
        a0 == IF out.shape # "raise" THEN StrOrEmpty(v.details.answer)
              ELSE EmptyStr
    IN  IF a0 # EmptyStr THEN GQResolve([g1 EXCEPT !.answer_llm = a0])
        ELSE GQFail(g1, "missing_answer", NoneVal)

\* Lines 1001-1016: validate_question_has_answer(use_wolfram=False) inside
\* try/except; `out` is the answer of its generate_json call.
GQAfterRecovery(g, out) ==
    LET g1 == [g EXCEPT !.validator_calls = @ + 1]
        v == HasAnswerDirect(out)
        a0 == IF out.shape # "raise" /\ v.ok THEN StrOrEmpty(v.details.answer)
              ELSE EmptyStr
    IN  IF a0 # EmptyStr THEN GQResolve([g1 EXCEPT !.answer_llm = a0])
        ELSE GQFail(g1, "missing_answer", NoneVal)

\* The oracle step taking whatever result_text returns as the answer.
GQAfterOracle_NoCheck(g, reply) ==
    LET rt == ResultText(g.wolfram_query, reply)
        g1 == [g EXCEPT !.oracle_calls = @ + 1]
    IN  IF rt.raised THEN GQRaise(g1)
        ELSE [g1 EXCEPT !.oracle_text = rt.value, !.final_answer = rt.value,
                         !.pc = "validation_prompt"]

\* The oracle step raising when the oracle has no answer.
GQAfterOracle_AbortOnNoAnswer(g, reply) ==
    LET rt == ResultText(g.wolfram_query, reply)
        g1 == [g EXCEPT !.oracle_calls = @ + 1]
        g2 == [g1 EXCEPT !.oracle_text = rt.value]
    IN  IF rt.raised THEN GQRaise(g1)
        ELSE IF ~Truthy(rt.value) \/ Contains(rt.value, NotUnderstoodPhrase)
        THEN GQExhausted([g2 EXCEPT !.last_error =
                             [tag |-> "wolfram_no_answer", detail |-> rt.value],
                           !.tags = Append(@, "wolfram_no_answer")])
        ELSE [g2 EXCEPT !.final_answer = rt.value, !.pc = "validation_prompt"]

\* Lines 1020-1024: wa = result_text(wolfram_query) and its test.
GQAfterOracle(g, reply) ==
    LET rt == ResultText(g.wolfram_query, reply)
        g1 == [g EXCEPT !.oracle_calls = @ + 1]
        g2 == [g1 EXCEPT !.oracle_text = rt.value]
    IN  IF rt.raised THEN GQRaise(g1)
        ELSE IF ~Truthy(rt.value) \/ Contains(rt.value, NotUnderstoodPhrase)
        THEN GQFail(g2, "wolfram_no_answer", rt.value)
        ELSE [g2 EXCEPT !.final_answer = rt.value, !.pc = "validation_prompt"]

\* A validation-prompt step that asks again when the answer is no dict.
GQAfterValidationPrompt_AskAgain(g, out) ==
    LET g1 == [g EXCEPT !.vp_calls = @ + 1]
    IN  IF out.shape # "dict" THEN g1
        ELSE [g1 EXCEPT !.pc = "returned",
                !.result = GeneratedQuestion(g.question, g.final_answer,
                              IF g.use_wolfram THEN g.wolfram_query ELSE EmptyStr,
                              StrOrEmpty(out.d.validation_prompt),
                              Metadata(g.raw_metadata, g.effective_session, g.use_wolfram))]

\* Lines 1028-1048: _build_validation_prompt and the return.
GQAfterValidationPrompt(g, out) ==
    LET g1 == [g EXCEPT !.vp_calls = @ + 1]
    IN  IF out.shape # "dict" THEN GQRaise(g1)
        ELSE [g1 EXCEPT !.pc = "returned",
                !.result = GeneratedQuestion(g.question, g.final_answer,
                              IF g.use_wolfram THEN g.wolfram_query ELSE EmptyStr,
                              StrOrEmpty(out.d.validation_prompt),
                              Metadata(g.raw_metadata, g.effective_session, g.use_wolfram))]

\* ------------------------------------------------------------------------
\* The hint generation engine
\* ------------------------------------------------------------------------

\* Largest max_attempts drawn for generate_hint.
MaxHintAttempts == 2

KindHint == <<"h", "i", "n", "t">>
KindFollowup == <<"f", "o", "l", "l", "o", "w", "u", "p">>

\* str(v).strip() if v else None
StripOrNone(v) == IF Truthy(v) THEN Strip(v) ELSE NoneVal

\* Answers of the model to a hint call.
HintOutcomes ==
    { JsonDict([kind |-> k, text |-> x, hint_type |-> NoneVal, wolfram_query |-> w]) :
        k \in {NoneVal, <<"x">>, KindFollowup, <<" ">> \o KindHint},
        x \in {NoneVal, <<" ">>, <<"T", "1", " ">>, <<"T", "2">>},
        w \in QueryValues }
    \cup { JsonDict([kind |-> KindHint, text |-> <<"T", "1">>,
                     hint_type |-> <<"S", " ">>, wolfram_query |-> NoneVal]),
           JsonListDict([kind |-> KindHint, text |-> <<"T", "1">>,
                         hint_type |-> NoneVal, wolfram_query |-> NoneVal]),
           JsonRaise }

\* HintResponse(kind, text, hint_type, wolfram_query, wolfram_result)
HintResponse(k, x, ht, w, r) ==
    [kind |-> k, text |-> x, hint_type |-> ht, wolfram_query |-> w, wolfram_result |-> r]

NoHintResponse == HintResponse(EmptyStr, EmptyStr, NoneVal, NoneVal, NoneVal)

\* last_out = None
NoOut == [kind |-> NoneVal, text |-> NoneVal, hint_type |-> NoneVal, wolfram_query |-> NoneVal]

\* A call of generate_hint at its entry: the arguments (wolfram tells whether
\* self.wolfram is set), the locals, pc ("start" | "classify" | "generate" |
\* "oracle" | "returned" | "raised" | "idle"), the HintResponse returned,
\* and the record of the run: calls made, the issue of each failed attempt
\* (issues), the text field of each answer that was a dict (texts), the
\* attempts in which the oracle was queried (queried) and the "extra" of the
\* prompt of each hint call: {"attempt": attempt, "previous_issue": last_issue}.
HStart(problem, hint_type, n, uw, configured) ==
    [problem |-> problem, hint_type |-> hint_type, max_attempts |-> n,
     use_wolfram_arg |-> uw, wolfram |-> configured, use_wolfram |-> uw,
     attempt |-> 0, last_issue |-> "None", last_out |-> NoOut,
     text |-> EmptyStr, ht |-> NoneVal, wq |-> NoneVal,
     pc |-> "start", result |-> NoHintResponse,
     gen_calls |-> 0, classifier_calls |-> 0, oracle_calls |-> 0,
     issues |-> << >>, texts |-> << >>, queried |-> {}, extras |-> << >>]

HIdle == [HStart(EmptyStr, NoneVal, 0, FALSE, FALSE) EXCEPT !.pc = "idle"]

HReturn(h, res) == [h EXCEPT !.pc = "returned", !.result = res]

\* Lines 1221-1228: the fallback after the loop.
HFallback(h) ==
    HReturn(h, HintResponse(KindHint, StrOrEmpty(h.last_out.text), h.hint_type,
                            NoneVal, NoneVal))

\* for attempt in range(1, max_attempts + 1): the first pass, if there is one
HEnterLoop(h) ==
    IF h.max_attempts >= 1
    THEN [h EXCEPT !.pc = "generate", !.attempt = 1]
    ELSE HFallback(h)

\* A failed attempt that does not record its issue.
HFail_NoIssue(h, issue) ==
    LET h1 == [h EXCEPT !.issues = Append(@, issue)]
    IN  IF h.attempt < h.max_attempts
        THEN [h1 EXCEPT !.pc = "generate", !.attempt = @ + 1]
        ELSE HFallback(h1)

\* last_issue = ...; then the next pass, or the fallback after the last one
HFail(h, issue) ==
    LET h1 == [h EXCEPT !.last_issue = issue, !.issues = Append(@, issue)]
    IN  IF h.attempt < h.max_attempts
        THEN [h1 EXCEPT !.pc = "generate", !.attempt = @ + 1]
        ELSE HFallback(h1)

\* `if use_wolfram and not self._is_math_related(problem)`
HEnter(h) ==
    IF h.use_wolfram /\ ClassifierCalls(h.problem)
    THEN [h EXCEPT !.pc = "classify"]
    ELSE HEnterLoop([h EXCEPT !.use_wolfram = FALSE])

HAfterClassifier(h, c) ==
    HEnterLoop([h EXCEPT !.use_wolfram = IsMathRelated(c), !.classifier_calls = @ + 1])

\* last_out kept from the first answer only.
HRemember_First(h, d) ==
    [h EXCEPT !.last_out = IF h.texts = << >> THEN d ELSE @,
              !.texts = Append(@, d.text)]

\* last_out = out
HRemember(h, d) ==
    [h EXCEPT !.last_out = d, !.texts = Append(@, d.text)]

\* The acceptance test without its test of the text.
HAccepts_KindOnly(kind, text) == kind \in {KindFollowup, KindHint}

\* not (kind not in ("followup", "hint") or not text)
HAccepts(kind, text) == kind \in {KindFollowup, KindHint} /\ text # EmptyStr

\* A followup that keeps the query of the answer.
HFollowup_KeepQuery(text, wq) == HintResponse(KindFollowup, text, NoneVal, wq, NoneVal)

\* HintResponse(kind="followup", text=text, hint_type=None, wolfram_query=None,
\* wolfram_result=None)
HFollowup(text, wq) == HintResponse(KindFollowup, text, NoneVal, NoneVal, NoneVal)

\* Lines 1187-1215: the hint call, the acceptance test and what is returned
\* without the oracle.
HAfterGeneration(h, out) ==
    LET h0 == [h EXCEPT !.gen_calls = @ + 1,
                        !.extras = Append(@, [attempt |-> h.attempt,
                                              previous_issue |-> h.last_issue])]
    IN  IF out.shape # "dict" THEN [h0 EXCEPT !.pc = "raised"]
        ELSE LET h1 == HRemember(h0, out.d)
                 kind == StrOrEmpty(out.d.kind)
                 text == StrOrEmpty(out.d.text)
                 ht == StripOrNone(out.d.hint_type)
                 wq == StripOrNone(out.d.wolfram_query)
             IN  IF ~HAccepts(kind, text)
                 THEN HFail(h1, "invalid_kind_or_missing_text")
                 ELSE IF kind = KindFollowup
                 THEN HReturn(h1, HFollowup(text, wq))
                 ELSE IF ~h.use_wolfram
                 THEN HReturn(h1, HintResponse(KindHint, text, ht, NoneVal, NoneVal))
                 ELSE IF ~Truthy(wq)
                 THEN HFail(h1, "wolfram_unverifiable_hint")
                 ELSE IF ~h.wolfram THEN [h1 EXCEPT !.pc = "raised"]
                 ELSE [h1 EXCEPT !.pc = "oracle", !.text = text, !.ht = ht, !.wq = wq]

\* An oracle step that returns the hint with whatever the oracle said.
HAfterOracle_AcceptAny(h, reply) ==
    LET rt == ResultText(h.wq, reply)
        h1 == [h EXCEPT !.oracle_calls = @ + 1, !.queried = @ \cup {h.attempt}]
    IN  IF rt.raised THEN [h1 EXCEPT !.pc = "raised"]
        ELSE HReturn(h1, HintResponse(KindHint, h.text, h.ht, h.wq, rt.value))

\* Lines 1215-1219: the oracle query of a hint and its test.
HAfterOracle(h, reply) ==
    LET rt == ResultText(h.wq, reply)
        h1 == [h EXCEPT !.oracle_calls = @ + 1, !.queried = @ \cup {h.attempt}]
    IN  IF rt.raised THEN [h1 EXCEPT !.pc = "raised"]
        ELSE IF Truthy(rt.value) /\ ~Contains(rt.value, NotUnderstoodPhrase)
        THEN HReturn(h1, HintResponse(KindHint, h.text, h.ht, h.wq, rt.value))
        ELSE HFail(h1, "wolfram_unverifiable_hint")

\* ------------------------------------------------------------------------
\* The HTTP service: requestQuestion and submitAnswer
\* ------------------------------------------------------------------------

\* Number of requests the service receives.
MaxRequests == 3

Requests == 1..MaxRequests

\* _id of the session documents that exist; UnknownSession is an id that
\* names none (or is no valid ObjectId).
SessionIds == {1, 2}
UnknownSession == 0

\* What ai_util.generate_question returns as the question, or that it raised.
QuestionContents == {"q1", "q2"}
GeneratorRaised == "raised"

\* find_one found nothing. topics is whether evaluated_topics names a topic.
NoPending ==
    [sessionID |-> UnknownSession, questionId |-> 0, content |-> "none", topics |-> FALSE]

\* mongo.pending_questions.find_one({"sessionID": s}): the first match.
RECURSIVE FindPending(_, _)
FindPending(pending, s) ==
    IF pending = << >> THEN NoPending
    ELSE IF Head(pending).sessionID = s THEN Head(pending)
    ELSE FindPending(Tail(pending), s)

\* mongo.pending_questions.find_one({"questionId": id}): the first match.
RECURSIVE FindPendingById(_, _)
FindPendingById(pending, id) ==
    IF pending = << >> THEN NoPending
    ELSE IF Head(pending).questionId = id THEN Head(pending)
    ELSE FindPendingById(Tail(pending), id)

\* A delete_one that deletes nothing.
DeletePendingById_Keep(pending, id) == pending

\* mongo.pending_questions.delete_one({"questionId": id}): the first match.
RECURSIVE DeletePendingById(_, _)
DeletePendingById(pending, id) ==
    IF pending = << >> THEN << >>
    ELSE IF Head(pending).questionId = id THEN Tail(pending)
    ELSE <<Head(pending)>> \o DeletePendingById(Tail(pending), id)

\* A request not yet received. op is the route; pc is "idle" | "generate" |
\* "grade" | "done"; found is what find_one returned; gen_calls and inserts
\* count the calls of generate_question and insert_one made for the
\* request; status, questionId, content and is_correct are the response.
NoRequest ==
    [op |-> "none", session |-> UnknownSession, pc |-> "idle", found |-> NoPending,
     gen_calls |-> 0, inserts |-> 0, status |-> 0, questionId |-> 0, content |-> "none",
     is_correct |-> FALSE]

Respond(q, status, id, content) ==
    [q EXCEPT !.pc = "done", !.status = status, !.questionId = id, !.content = content]

\* The metrics of the class the sessions belong to, for its one topic.
NoMetrics == [totalAnswers |-> 0, rightAnswers |-> 0]

\* The service at start-up: ai_util is whether SophiAIUtil was constructed,
\* pending the pending_questions collection in insertion order, next_id the
\* next fresh ObjectId, questions the "questions" list of each session
\* document, metrics the class document's metrics, reqs the requests.
ApiStart(ai) ==
    [ai_util |-> ai, pending |-> << >>, next_id |-> 1,
     questions |-> [s \in SessionIds |-> << >>], metrics |-> NoMetrics,
     reqs |-> [r \in Requests |-> NoRequest]]

ApiIdle == [ai_util |-> FALSE, pending |-> << >>, next_id |-> 0,
            questions |-> [s \in SessionIds |-> << >>], metrics |-> NoMetrics,
            reqs |-> [r \in Requests |-> NoRequest]]

\* The lookup that takes no notice of a pending question.
RQAfterLookup_IgnorePending(a, r, s) ==
    LET q == [a.reqs[r] EXCEPT !.op = "requestQuestion", !.session = s]
    IN  IF s \notin SessionIds
        THEN [a EXCEPT !.reqs[r] = Respond(q, 404, 0, "none")]
        ELSE IF ~a.ai_util THEN [a EXCEPT !.reqs[r] = Respond(q, 500, 0, "none")]
        ELSE [a EXCEPT !.reqs[r] = [q EXCEPT !.pc = "generate"]]

\* request_question up to the call of generate_question (lines 260-276).
RQAfterLookup(a, r, s) ==
    LET q == [a.reqs[r] EXCEPT !.op = "requestQuestion", !.session = s]
        existing_pending == FindPending(a.pending, s)
    IN  IF s \notin SessionIds
        THEN [a EXCEPT !.reqs[r] = Respond(q, 404, 0, "none")]
        ELSE IF existing_pending # NoPending
        THEN [a EXCEPT !.reqs[r] =
                 Respond([q EXCEPT !.found = existing_pending], 200,
                         existing_pending.questionId, existing_pending.content)]
        ELSE IF ~a.ai_util THEN [a EXCEPT !.reqs[r] = Respond(q, 500, 0, "none")]
        ELSE [a EXCEPT !.reqs[r] = [q EXCEPT !.pc = "generate"]]

\* request_question from the call of generate_question on (lines 314-356):
\* out is the question generated, or GeneratorRaised; topics is whether
\* evaluate_question_topics returned a topic.
RQAfterGeneration(a, r, out, topics) ==
    LET q == [a.reqs[r] EXCEPT !.gen_calls = @ + 1]
        pending_q == [sessionID |-> q.session, questionId |-> a.next_id, content |-> out,
                      topics |-> topics]
    IN  IF out = GeneratorRaised
        THEN [a EXCEPT !.reqs[r] = Respond(q, 500, 0, "none")]
        ELSE [a EXCEPT !.pending = Append(@, pending_q),
                       !.next_id = @ + 1,
                       !.reqs[r] = Respond([q EXCEPT !.inserts = @ + 1], 200,
                                           pending_q.questionId, out)]

\* An id that names no pending question.
UnknownQuestion == 0

\* What the grading call ai_util.gemini.generate_json gives: it raised, or a
\* dict whose "ok" is true, false or missing.
GraderRaised == "raised"
GraderOutcomes == {GraderRaised, "ok_true", "ok_false", "ok_missing"}

\* bool(val_res.get("ok")), and False when the call failed.
IsCorrect(out) == out = "ok_true"

\* asdict(Question(...)) as pushed to the session's questions.
QuestionEntry(pending, is_correct) ==
    [questionId |-> pending.questionId, content |-> pending.content,
     wasUserCorrect |-> is_correct]

\* The metrics after one answer on a question with the given topics.
UpdatedMetrics(metrics, topics, is_correct) ==
    IF topics
    THEN [totalAnswers |-> metrics.totalAnswers + 1,
          rightAnswers |-> metrics.rightAnswers + (IF is_correct THEN 1 ELSE 0)]
    ELSE metrics

\* submit_answer up to the grading call (lines 360-370): id is the
\* questionID of the route, answered whether the request carries an answer.
SAAfterLookup(a, r, id, answered) ==
    LET q == [a.reqs[r] EXCEPT !.op = "submitAnswer", !.questionId = id]
        pending == FindPendingById(a.pending, id)
    IN  IF ~a.ai_util THEN [a EXCEPT !.reqs[r] = Respond(q, 500, id, "none")]
        ELSE IF pending = NoPending THEN [a EXCEPT !.reqs[r] = Respond(q, 404, id, "none")]
        ELSE IF ~answered THEN [a EXCEPT !.reqs[r] = Respond(q, 400, id, "none")]
        ELSE [a EXCEPT !.reqs[r] = [q EXCEPT !.pc = "grade", !.found = pending,
                                             !.session = pending.sessionID]]

\* What submit_answer pushes to the session's questions.
SAPush(questions, pending, is_correct) ==
    [questions EXCEPT ![pending.sessionID] = Append(@, QuestionEntry(pending, is_correct))]

\* submit_answer from the grading call on (lines 390-442).
SAAfterGrading(a, r, out) ==
    LET q == a.reqs[r]
        pending == q.found
        is_correct == IsCorrect(out)
    IN  [a EXCEPT !.metrics = UpdatedMetrics(@, pending.topics, is_correct),
                  !.questions = SAPush(@, pending, is_correct),
                  !.pending = DeletePendingById(@, q.questionId),
                  !.reqs[r] = [Respond(q, 200, q.questionId, pending.content)
                                   EXCEPT !.is_correct = is_correct]]

\* ------------------------------------------------------------------------
\* Initial states and actions
\* ------------------------------------------------------------------------

\* A frame of generate_json at its first request. pc is "request" | "parse" |
\* "returned" | "raised" | "idle"; attempt is the loop variable; depth is 0 in
\* the caller's frame and 1 inside the fix call; text is the text extracted
\* from the response; first_text the text of the caller's frame while the fix
\* call runs; last the response to the latest request; requests the number of
\* HTTP requests issued; sleeps the arguments of time.sleep; error what was
\* raised; kinds what the requests of this frame were answered with ("rate"
\* for a 429, else the kind of the response).
TStart(fix) ==
    [pc |-> "request", attempt |-> 0, allow_json_fix |-> fix, depth |-> 0,
     text |-> NoText, first_text |-> NoText, last |-> NoResponse,
     requests |-> 0, sleeps |-> << >>, error |-> NoError, kinds |-> << >>]

TIdle == [TStart(FALSE) EXCEPT !.pc = "idle"]

TRaise(t, tag, code, txt) ==
    [t EXCEPT !.pc = "raised", !.error = [tag |-> tag, code |-> code, text |-> txt]]

\* What a request was answered with, for the record of the frame.
ResponseKind(r) == IF r.kind = "http" /\ r.code = RateLimited THEN "rate" ELSE r.kind

\* A loop in which an empty response does not use up an attempt.
AfterResponse_OwnBudget(t, r) ==
    LET t1 == [t EXCEPT !.last = r, !.requests = @ + 1,
                        !.kinds = Append(@, ResponseKind(r))]
        more == t.attempt < RequestBudget - 1
    IN  CASE r.kind = "text" /\ r.text.parse # "blank" ->
               \* text = "\n".join(text_parts).strip(); break
               [t1 EXCEPT !.text = r.text, !.pc = "parse"]
          [] r.kind = "text" /\ r.text.parse = "blank" ->
               \* break with text == "", then `if not text: raise`
               TRaise(t1, "extraction_failed", 0, NoText)
          [] r.kind = "http" /\ r.code = RateLimited /\ more ->
               [t1 EXCEPT !.sleeps = Append(@, RateLimitSleep(r.body, t.attempt)),
                          !.attempt = @ + 1]
          [] r.kind = "http" /\ ~(r.code = RateLimited /\ more) ->
               TRaise(t1, "http_error", r.code, NoText)
          [] r.kind = "empty" /\ more ->
               [t1 EXCEPT !.sleeps = Append(@, EmptySleep(t.attempt))]
          [] r.kind = "empty" /\ ~more ->
               TRaise(t1, "empty_generation", 0, NoText)
          [] r.kind = "transport" ->
               TRaise(t1, "transport", 0, NoText)

\* A loop that retries after a transport failure as after an empty response.
AfterResponse_RetryTransport(t, r) ==
    LET t1 == [t EXCEPT !.last = r, !.requests = @ + 1,
                        !.kinds = Append(@, ResponseKind(r))]
        more == t.attempt < RequestBudget - 1
    IN  CASE r.kind = "text" /\ r.text.parse # "blank" ->
               \* text = "\n".join(text_parts).strip(); break
               [t1 EXCEPT !.text = r.text, !.pc = "parse"]
          [] r.kind = "text" /\ r.text.parse = "blank" ->
               \* break with text == "", then `if not text: raise`
               TRaise(t1, "extraction_failed", 0, NoText)
          [] r.kind = "http" /\ r.code = RateLimited /\ more ->
               [t1 EXCEPT !.sleeps = Append(@, RateLimitSleep(r.body, t.attempt)),
                          !.attempt = @ + 1]
          [] r.kind = "http" /\ ~(r.code = RateLimited /\ more) ->
               TRaise(t1, "http_error", r.code, NoText)
          [] r.kind = "empty" /\ more ->
               [t1 EXCEPT !.sleeps = Append(@, EmptySleep(t.attempt)),
                          !.attempt = @ + 1]
          [] r.kind = "empty" /\ ~more ->
               TRaise(t1, "empty_generation", 0, NoText)
          [] r.kind = "transport" /\ more ->
               [t1 EXCEPT !.sleeps = Append(@, EmptySleep(t.attempt)),
                          !.attempt = @ + 1]
          [] r.kind = "transport" /\ ~more ->
               TRaise(t1, "transport", 0, NoText)

\* One pass of the loop body for the response r: the success path or one of
\* the two except clauses (any other exception leaves generate_json).
AfterResponse(t, r) ==
    LET t1 == [t EXCEPT !.last = r, !.requests = @ + 1,
                        !.kinds = Append(@, ResponseKind(r))]
        more == t.attempt < RequestBudget - 1
    IN  CASE r.kind = "text" /\ r.text.parse # "blank" ->
               \* text = "\n".join(text_parts).strip(); break
               [t1 EXCEPT !.text = r.text, !.pc = "parse"]
          [] r.kind = "text" /\ r.text.parse = "blank" ->
               \* break with text == "", then `if not text: raise`
               TRaise(t1, "extraction_failed", 0, NoText)
          [] r.kind = "http" /\ r.code = RateLimited /\ more ->
               [t1 EXCEPT !.sleeps = Append(@, RateLimitSleep(r.body, t.attempt)),
                          !.attempt = @ + 1]
          [] r.kind = "http" /\ ~(r.code = RateLimited /\ more) ->
               TRaise(t1, "http_error", r.code, NoText)
          [] r.kind = "empty" /\ more ->
               [t1 EXCEPT !.sleeps = Append(@, EmptySleep(t.attempt)),
                          !.attempt = @ + 1]
          [] r.kind = "empty" /\ ~more ->
               TRaise(t1, "empty_generation", 0, NoText)
          [] r.kind = "transport" ->
               TRaise(t1, "transport", 0, NoText)

\* return self._parse_model_json(text), or on json.JSONDecodeError either the
\* terminal error (allow_json_fix false) or the recursive fix call, whose
\* result or error is the result or error of this call.
AfterText(t) ==
    IF t.text.parse \in {"direct", "repaired"}
    THEN [t EXCEPT !.pc = "returned"]
    ELSE IF ~t.allow_json_fix
    THEN TRaise(t, "invalid_json", 0, t.text)
    ELSE [t EXCEPT !.pc = "request", !.attempt = 0, !.allow_json_fix = FALSE,
                   !.depth = @ + 1, !.first_text = t.text, !.kinds = << >>]

\* The controller before a call: session and question_answer_history are the
\* arguments, pc the caller's position ("call" | "adjusted" | "normalized" |
\* "renormalized" | "idle"), result the value returned last and prev the one
\* returned before it.
AdjStart(s, h) ==
    [session |-> s, question_answer_history |-> h, pc |-> "call",
     result |-> NoSession, prev |-> NoSession]

AdjIdle ==
    [session |-> NoSession, question_answer_history |-> << >>, pc |-> "idle",
     result |-> NoSession, prev |-> NoSession]

AdjInit ==
    /\ adj \in { AdjStart(s, h) : s \in Sessions, h \in Histories }
    /\ tr = TIdle
    /\ val = ValIdle
    /\ gq = GQIdle
    /\ hint = HIdle
    /\ cls = ClsIdle
    /\ rp = RpIdle
    /\ cmp = CmpIdle
    /\ api = ApiIdle

\* A call of adjust_session_parameters(session, question_answer_history).
Adjust ==
    /\ adj.pc = "call"
    /\ adj' = [adj EXCEPT
                 !.result = AdjustSessionParameters(adj.session, adj.question_answer_history),
                 !.pc = "adjusted"]
    /\ UNCHANGED <<tr, val, gq, hint, cls, rp, cmp, api>>

\* A call of session.normalized().
Normalize ==
    /\ adj.pc = "call"
    /\ adj' = [adj EXCEPT !.result = Normalized(adj.session), !.pc = "normalized"]
    /\ UNCHANGED <<tr, val, gq, hint, cls, rp, cmp, api>>

\* A call of normalized() on the value normalized() returned.
Renormalize ==
    /\ adj.pc = "normalized"
    /\ adj' = [adj EXCEPT !.result = Normalized(adj.result), !.prev = adj.result,
                          !.pc = "renormalized"]
    /\ UNCHANGED <<tr, val, gq, hint, cls, rp, cmp, api>>

AdjNext == Adjust \/ Normalize \/ Renormalize

SpecAdjust == AdjInit /\ [][AdjNext]_vars

TInit ==
    /\ tr \in { TStart(fix) : fix \in BOOLEAN }
    /\ adj = AdjIdle
    /\ val = ValIdle
    /\ gq = GQIdle
    /\ hint = HIdle
    /\ cls = ClsIdle
    /\ rp = RpIdle
    /\ cmp = CmpIdle
    /\ api = ApiIdle

Request ==
    /\ tr.pc = "request"
    /\ tr.attempt < RequestBudget
    /\ \E r \in Responses : tr' = AfterResponse(tr, r)
    /\ UNCHANGED <<adj, val, gq, hint, cls, rp, cmp, api>>

Parse ==
    /\ tr.pc = "parse"
    /\ tr' = AfterText(tr)
    /\ UNCHANGED <<adj, val, gq, hint, cls, rp, cmp, api>>

TNext == Request \/ Parse

SpecTransport == TInit /\ [][TNext]_vars

\* Questions handed to a validator: blank or not.
ValQuestions == {<<" ">>, <<"2", "+", "2">>}

\* The validator calls drawn.
ValStarts ==
    { ValStart(op, q, uw, c) :
        op \in {"has_answer", "hint_step"}, q \in ValQuestions,
        uw \in BOOLEAN, c \in BOOLEAN }

ValInit ==
    /\ val \in ValStarts
    /\ adj = AdjIdle
    /\ tr = TIdle
    /\ gq = GQIdle
    /\ hint = HIdle
    /\ cls = ClsIdle
    /\ rp = RpIdle
    /\ cmp = CmpIdle
    /\ api = ApiIdle

\* Entry of validate_question_has_answer / validate_hint_against_step.
ValidateCall ==
    /\ val.pc = "start"
    /\ val' = ValEnter(val)
    /\ UNCHANGED <<adj, tr, gq, hint, cls, rp, cmp, api>>

\* The classification call of _is_math_related.
ValClassify ==
    /\ val.pc = "classify"
    /\ \E c \in ClassifierOutcomes : val' = ValAfterClassifier(val, c)
    /\ UNCHANGED <<adj, tr, gq, hint, cls, rp, cmp, api>>

\* The generate_json call of the validator.
ValModelCall ==
    /\ val.pc = "model"
    /\ \E out \in (IF val.op = "hint_step" THEN HintStepOutcomes
                   ELSE IF val.use_wolfram THEN ToQueryOutcomes ELSE HasAnswerOutcomes) :
          val' = ValAfterModel(val, out)
    /\ UNCHANGED <<adj, tr, gq, hint, cls, rp, cmp, api>>

\* best_effort_answer / result_text on the query obtained.
ValOracleQuery ==
    /\ val.pc = "oracle"
    /\ \E reply \in OracleReplies : val' = ValAfterOracle(val, reply)
    /\ UNCHANGED <<adj, tr, gq, hint, cls, rp, cmp, api>>

ValNext == ValidateCall \/ ValClassify \/ ValModelCall \/ ValOracleQuery

SpecValidate == ValInit /\ [][ValNext]_vars

\* Sessions handed to generate_question: one without unit or concepts, one
\* with both; adaptive, at the top difficulty or inside the range.
GQSessions ==
    { [difficulty_level |-> d, cumulative |-> sh.cumulative, adaptive |-> TRUE,
       focus_concepts |-> sh.focus_concepts, unit_focus |-> sh.unit_focus] :
      d \in {3, 4, MaxDifficulty}, sh \in SessionShapes }

GQHistories ==
    { << >>, [i \in 1..Streak |-> [has_correct |-> TRUE, correct |-> TRUE]] }

\* The calls of generate_question drawn.
GQStarts ==
    { GQStart(s, h, cn, NoneVal, NoneVal, n, uw, c) :
        s \in GQSessions, h \in GQHistories, cn \in {NoneVal, <<"M">>},
        n \in 0..MaxAttempts, uw \in BOOLEAN, c \in BOOLEAN }

GQInit ==
    /\ gq \in GQStarts
    /\ adj = AdjIdle
    /\ tr = TIdle
    /\ val = ValIdle
    /\ hint = HIdle
    /\ cls = ClsIdle
    /\ rp = RpIdle
    /\ cmp = CmpIdle
    /\ api = ApiIdle

\* Entry of generate_question up to its first call of a collaborator.
GenerateQuestionCall ==
    /\ gq.pc = "start"
    /\ gq' = GQEnter(gq)
    /\ UNCHANGED <<adj, tr, val, hint, cls, rp, cmp, api>>

\* The classification call on the assembled context.
GQClassify ==
    /\ gq.pc = "classify"
    /\ \E c \in ClassifierOutcomes : gq' = GQAfterClassifier(gq, c)
    /\ UNCHANGED <<adj, tr, val, hint, cls, rp, cmp, api>>

\* One generation call and the checks on its answer.
GQGenerate ==
    /\ gq.pc = "generate"
    /\ \E out \in GenerationOutcomes : gq' = GQAfterGeneration(gq, out)
    /\ UNCHANGED <<adj, tr, val, hint, cls, rp, cmp, api>>

\* The validator call that recovers a missing answer.
GQRecoverAnswer ==
    /\ gq.pc = "recover"
    /\ \E out \in HasAnswerOutcomes : gq' = GQAfterRecovery(gq, out)
    /\ UNCHANGED <<adj, tr, val, hint, cls, rp, cmp, api>>

\* The oracle query of an attempt.
GQOracleQuery ==
    /\ gq.pc = "oracle"
    /\ \E reply \in OracleReplies : gq' = GQAfterOracle(gq, reply)
    /\ UNCHANGED <<adj, tr, val, hint, cls, rp, cmp, api>>

\* The validation-prompt call and the return.
GQBuildValidationPrompt ==
    /\ gq.pc = "validation_prompt"
    /\ \E out \in ValidationPromptOutcomes : gq' = GQAfterValidationPrompt(gq, out)
    /\ UNCHANGED <<adj, tr, val, hint, cls, rp, cmp, api>>

GQNext ==
    \/ GenerateQuestionCall \/ GQClassify \/ GQGenerate
    \/ GQRecoverAnswer \/ GQOracleQuery \/ GQBuildValidationPrompt

SpecQuestion == GQInit /\ [][GQNext]_vars

\* The calls of generate_hint drawn.
HStarts ==
    { HStart(p, ht, n, uw, c) :
        p \in ValQuestions, ht \in {NoneVal, <<"S">>},
        n \in 0..MaxHintAttempts, uw \in BOOLEAN, c \in BOOLEAN }

HInit ==
    /\ hint \in HStarts
    /\ adj = AdjIdle
    /\ tr = TIdle
    /\ val = ValIdle
    /\ gq = GQIdle
    /\ cls = ClsIdle
    /\ rp = RpIdle
    /\ cmp = CmpIdle
    /\ api = ApiIdle

\* Entry of generate_hint up to its first call of a collaborator.
GenerateHintCall ==
    /\ hint.pc = "start"
    /\ hint' = HEnter(hint)
    /\ UNCHANGED <<adj, tr, val, gq, cls, rp, cmp, api>>

\* The classification call on the problem.
HClassify ==
    /\ hint.pc = "classify"
    /\ \E c \in ClassifierOutcomes : hint' = HAfterClassifier(hint, c)
    /\ UNCHANGED <<adj, tr, val, gq, cls, rp, cmp, api>>

\* One hint call and the checks on its answer.
HGenerate ==
    /\ hint.pc = "generate"
    /\ \E out \in HintOutcomes : hint' = HAfterGeneration(hint, out)
    /\ UNCHANGED <<adj, tr, val, gq, cls, rp, cmp, api>>

\* The oracle query of a hint.
HOracleQuery ==
    /\ hint.pc = "oracle"
    /\ \E reply \in OracleReplies : hint' = HAfterOracle(hint, reply)
    /\ UNCHANGED <<adj, tr, val, gq, cls, rp, cmp, api>>

HNext == GenerateHintCall \/ HClassify \/ HGenerate \/ HOracleQuery

SpecHint == HInit /\ [][HNext]_vars

\* One call of one of the engine's operations: generate_question,
\* generate_hint, validate_question_has_answer or validate_hint_against_step.
CallsInit ==
    /\ gq \in GQStarts \cup {GQIdle}
    /\ hint \in IF gq = GQIdle THEN HStarts \cup {HIdle} ELSE {HIdle}
    /\ val \in IF gq = GQIdle /\ hint = HIdle THEN ValStarts ELSE {ValIdle}
    /\ adj = AdjIdle
    /\ tr = TIdle
    /\ cls = ClsIdle
    /\ rp = RpIdle
    /\ cmp = CmpIdle
    /\ api = ApiIdle

CallsNext == GQNext \/ HNext \/ ValNext

SpecCalls == CallsInit /\ [][CallsNext]_vars

ClsInit ==
    /\ cls \in { ClsStart(x) : x \in ContextTexts }
    /\ adj = AdjIdle
    /\ tr = TIdle
    /\ val = ValIdle
    /\ gq = GQIdle
    /\ hint = HIdle
    /\ rp = RpIdle
    /\ cmp = CmpIdle
    /\ api = ApiIdle

\* Entry of _is_math_related: the blank test.
IsMathRelatedCall ==
    /\ cls.pc = "start"
    /\ cls' = ClsEnter(cls)
    /\ UNCHANGED <<adj, tr, val, gq, hint, rp, cmp, api>>

\* The classification call and what is made of its answer.
ClsGenerate ==
    /\ cls.pc = "call"
    /\ \E out \in ClassifierOutcomes : cls' = ClsAfterCall(cls, out)
    /\ UNCHANGED <<adj, tr, val, gq, hint, rp, cmp, api>>

ClsNext == IsMathRelatedCall \/ ClsGenerate

SpecClassifier == ClsInit /\ [][ClsNext]_vars

RpInit ==
    /\ rp \in { RpStart(doc, "none", EmptyStr, 0, w.id) : doc \in Docs, w \in Wrappers }
            \cup { RpStart(doc, "comma", sep, 0, w.id) :
                      doc \in Docs, sep \in CommaSeparators, w \in Wrappers }
            \cup UNION { { RpStart(doc, "cut", EmptyStr, cut, w) :
                            cut \in 1..(Len(doc) - 1), w \in OpenWrappers } : doc \in Docs }
    /\ adj = AdjIdle
    /\ tr = TIdle
    /\ val = ValIdle
    /\ gq = GQIdle
    /\ hint = HIdle
    /\ cls = ClsIdle
    /\ cmp = CmpIdle
    /\ api = ApiIdle

\* The try block of _parse_model_json.
ParseDirect ==
    /\ rp.pc = "start"
    /\ rp' = RpAfterDirect(rp)
    /\ UNCHANGED <<adj, tr, val, gq, hint, cls, cmp, api>>

\* The except block of _parse_model_json.
ParseRepaired ==
    /\ rp.pc = "repair"
    /\ rp' = RpAfterRepair(rp)
    /\ UNCHANGED <<adj, tr, val, gq, hint, cls, cmp, api>>

RpNext == ParseDirect \/ ParseRepaired

SpecRepair == RpInit /\ [][RpNext]_vars

CmpInit ==
    /\ cmp \in { CmpStart(key, enabled, cached, text) :
                   key \in BOOLEAN, enabled \in BOOLEAN, cached \in BOOLEAN,
                   text \in CompressTexts }
    /\ adj = AdjIdle
    /\ tr = TIdle
    /\ val = ValIdle
    /\ gq = GQIdle
    /\ hint = HIdle
    /\ cls = ClsIdle
    /\ rp = RpIdle
    /\ api = ApiIdle

\* Entry of _compress_text and of _get_tokenc_client.
CompressTextCall ==
    /\ cmp.pc = "start"
    /\ cmp' = CmpEnter(cmp)
    /\ UNCHANGED <<adj, tr, val, gq, hint, cls, rp, api>>

ImportTokenc ==
    /\ cmp.pc = "import"
    /\ \E o \in ClientOutcomes : cmp' = CmpAfterImport(cmp, o)
    /\ UNCHANGED <<adj, tr, val, gq, hint, cls, rp, api>>

ConstructClient ==
    /\ cmp.pc = "construct"
    /\ \E o \in ClientOutcomes : cmp' = CmpAfterConstruct(cmp, o)
    /\ UNCHANGED <<adj, tr, val, gq, hint, cls, rp, api>>

CompressInput ==
    /\ cmp.pc = "compress"
    /\ \E o \in CompressOutcomes : cmp' = CmpAfterCompress(cmp, o)
    /\ UNCHANGED <<adj, tr, val, gq, hint, cls, rp, api>>

CmpNext == CompressTextCall \/ ImportTokenc \/ ConstructClient \/ CompressInput

SpecCompress == CmpInit /\ [][CmpNext]_vars

ApiInit ==
    /\ api \in { ApiStart(ai) : ai \in BOOLEAN }
    /\ adj = AdjIdle
    /\ tr = TIdle
    /\ val = ValIdle
    /\ gq = GQIdle
    /\ hint = HIdle
    /\ cls = ClsIdle
    /\ rp = RpIdle
    /\ cmp = CmpIdle

\* GET /api/requestQuestion/<sessionID> is received and handled up to the
\* call of the generator.
RequestQuestion ==
    /\ \E r \in Requests, s \in SessionIds \cup {UnknownSession} :
          /\ api.reqs[r].pc = "idle"
          /\ api' = RQAfterLookup(api, r, s)
    /\ UNCHANGED <<adj, tr, val, gq, hint, cls, rp, cmp>>

\* The generator answers and the handler finishes.
RequestQuestionFinish ==
    /\ \E r \in Requests, out \in QuestionContents \cup {GeneratorRaised}, topics \in BOOLEAN :
          /\ api.reqs[r].pc = "generate"
          /\ out = GeneratorRaised => ~topics
          /\ api' = RQAfterGeneration(api, r, out, topics)
    /\ UNCHANGED <<adj, tr, val, gq, hint, cls, rp, cmp>>

\* POST /api/submitAnswer/<questionID> is received and handled up to the
\* grading call.
SubmitAnswer ==
    /\ \E r \in Requests, id \in (1..(api.next_id - 1)) \cup {UnknownQuestion},
          answered \in BOOLEAN :
          /\ api.reqs[r].pc = "idle"
          /\ api' = SAAfterLookup(api, r, id, answered)
    /\ UNCHANGED <<adj, tr, val, gq, hint, cls, rp, cmp>>

\* The grader answers and the handler finishes.
SubmitAnswerFinish ==
    /\ \E r \in Requests, out \in GraderOutcomes :
          /\ api.reqs[r].pc = "grade"
          /\ api' = SAAfterGrading(api, r, out)
    /\ UNCHANGED <<adj, tr, val, gq, hint, cls, rp, cmp>>

ApiNext ==
    RequestQuestion \/ RequestQuestionFinish \/ SubmitAnswer \/ SubmitAnswerFinish

SpecService == ApiInit /\ [][ApiNext]_vars

\* ------------------------------------------------------------------------
\* Claims about the difficulty controller
\* ------------------------------------------------------------------------

\* The last three entries of the history passed in (when it has three).
HistTail3 == LastN(adj.question_answer_history, Streak)
Tail3AllCarry ==
    /\ Len(adj.question_answer_history) >= Streak
    /\ \A i \in 1..Streak : HistTail3[i].has_correct
Tail3Values == [i \in 1..Streak |-> HistTail3[i].correct]

\* The input difficulty clamped into [MinDifficulty, MaxDifficulty].
ClampedInput ==
    IF adj.session.difficulty_level < MinDifficulty THEN MinDifficulty
    ELSE IF adj.session.difficulty_level > MaxDifficulty THEN MaxDifficulty
    ELSE adj.session.difficulty_level

\* C5: for an adaptive session whose last three history entries all carry
\* `correct`, adjust_session_parameters returns min(5, d+1) when the three are
\* true, max(1, d-1) when the three are false and d when they are mixed, d
\* being the clamped input difficulty.
C5_AdjustByStreak ==
    (adj.pc = "adjusted" /\ adj.session.adaptive /\ Tail3AllCarry) =>
        LET d == ClampedInput
            r == adj.result.difficulty_level
        IN  /\ AllTrue(Tail3Values) =>
                r = IF d + 1 > MaxDifficulty THEN MaxDifficulty ELSE d + 1
            /\ ~AnyTrue(Tail3Values) =>
                r = IF d - 1 < MinDifficulty THEN MinDifficulty ELSE d - 1
            /\ (AnyTrue(Tail3Values) /\ ~AllTrue(Tail3Values)) => r = d

\* An adaptive call whose three last answers were wrong and whose difficulty
\* went down by one.
C5_Witness ==
    /\ adj.pc = "adjusted" /\ adj.session.adaptive /\ Tail3AllCarry
    /\ ~AnyTrue(Tail3Values)
    /\ adj.session.difficulty_level = 3
    /\ adj.result.difficulty_level = 2

\* C6: with adaptive=false adjust_session_parameters returns the session with
\* only its difficulty clamped, whatever the history holds.
C6_NonAdaptiveIdentity ==
    (adj.pc = "adjusted" /\ ~adj.session.adaptive) =>
        adj.result = [adj.session EXCEPT !.difficulty_level = ClampedInput]

\* A non-adaptive call with three correct answers in a row and room to go up.
C6_Witness ==
    /\ adj.pc = "adjusted" /\ ~adj.session.adaptive
    /\ Tail3AllCarry /\ AllTrue(Tail3Values)
    /\ adj.session.difficulty_level = 2
    /\ adj.result.difficulty_level = 2

\* C7: normalized() maps a difficulty below 1 to 1, one above 5 to 5, keeps
\* one in [1,5] and every other field, and normalizing its result again
\* returns the same value.
C7_NormalizedClampsIdempotent ==
    /\ adj.pc = "normalized" =>
          /\ adj.session.difficulty_level < MinDifficulty =>
                adj.result.difficulty_level = MinDifficulty
          /\ adj.session.difficulty_level > MaxDifficulty =>
                adj.result.difficulty_level = MaxDifficulty
          /\ adj.session.difficulty_level \in MinDifficulty..MaxDifficulty =>
                adj.result.difficulty_level = adj.session.difficulty_level
          /\ [adj.result EXCEPT !.difficulty_level = 0]
                = [adj.session EXCEPT !.difficulty_level = 0]
    /\ adj.pc = "renormalized" => adj.result = adj.prev

\* A difficulty above the range was normalized twice.
C7_Witness ==
    /\ adj.pc = "renormalized"
    /\ adj.session.difficulty_level > MaxDifficulty
    /\ adj.result.difficulty_level = MaxDifficulty

\* The last six entries of the history passed in, and those of them that
\* carry `correct`.
Window6 ==
    LET h == adj.question_answer_history
    IN  IF Len(h) <= 6 THEN h ELSE SubSeq(h, Len(h) - 5, Len(h))
CarryInWindow == SelectSeq(Window6, LAMBDA e : e.has_correct)

\* C25: adjust_session_parameters decides on the entries that carry
\* `correct` among the last 6 of the history: with fewer than 3 of them the
\* difficulty is the clamped input, whatever older entries carry; otherwise
\* the last 3 of them decide (up when all true, down when all false).
C25_WindowOfSix ==
    (adj.pc = "adjusted" /\ adj.session.adaptive) =>
        LET d == ClampedInput
            r == adj.result.difficulty_level
            n == Len(CarryInWindow)
            last == [i \in 1..3 |-> CarryInWindow[n - 3 + i].correct]
        IN  IF n < 3 THEN r = d
            ELSE /\ AllTrue(last) =>
                       r = IF d + 1 > MaxDifficulty THEN MaxDifficulty ELSE d + 1
                 /\ ~AnyTrue(last) =>
                       r = IF d - 1 < MinDifficulty THEN MinDifficulty ELSE d - 1
                 /\ (AnyTrue(last) /\ ~AllTrue(last)) => r = d

\* Seven entries, the oldest and two of the last six carry `correct`, all
\* three true: the difficulty stays.
C25_Witness ==
    /\ adj.pc = "adjusted" /\ adj.session.adaptive
    /\ Len(adj.question_answer_history) = 7
    /\ adj.question_answer_history[1].has_correct
    /\ adj.question_answer_history[1].correct
    /\ Len(CarryInWindow) = 2
    /\ \A i \in 1..2 : CarryInWindow[i].correct
    /\ adj.session.difficulty_level = 3
    /\ adj.result.difficulty_level = 3

\* C26: adjust_session_parameters leaves the session and the history it was
\* given as they were, and what it returns has the cumulative, adaptive,
\* focus_concepts and unit_focus of the session and a difficulty_level in
\* [1,5] at most 1 away from the clamped input difficulty.
C26_AdjustChangesDifficultyOnly ==
    /\ [](adj.pc = "adjusted" =>
            LET r == adj.result
                d == ClampedInput
            IN  /\ r.cumulative = adj.session.cumulative
                /\ r.adaptive = adj.session.adaptive
                /\ r.focus_concepts = adj.session.focus_concepts
                /\ r.unit_focus = adj.session.unit_focus
                /\ r.difficulty_level \in {d - 1, d, d + 1}
                /\ r.difficulty_level >= 1 /\ r.difficulty_level <= 5)
    /\ [][ /\ adj'.session = adj.session
           /\ adj'.question_answer_history = adj.question_answer_history ]_vars

\* Three correct answers at the top difficulty: the result stays at 5 and
\* keeps the session's other fields.
C26_Witness ==
    /\ adj.pc = "adjusted" /\ adj.session.adaptive /\ adj.session.cumulative
    /\ Tail3AllCarry /\ AllTrue(Tail3Values)
    /\ adj.session.difficulty_level = 5
    /\ adj.result.difficulty_level = 5
    /\ adj.result.focus_concepts # << >>

\* ------------------------------------------------------------------------
\* Claims about the transport
\* ------------------------------------------------------------------------

\* C4: in generate_json a 429 answer to the first or second request of a
\* frame is followed by one sleep of 1 to 65 seconds and the loop goes on to
\* another request; an HTTP error with another status raises at once, with no
\* sleep; once the call has raised, nothing more is requested or slept.
C4_RateLimitRetry ==
    /\ [](tr.pc = "request" => (tr.attempt < RequestBudget /\ ENABLED Request))
    /\ [][ /\ tr.pc \notin {"raised", "returned"}
           /\ (tr'.requests # tr.requests /\ tr'.last.kind = "http") =>
                IF tr'.last.code = RateLimited /\ tr.attempt < RequestBudget - 1
                THEN /\ Len(tr'.sleeps) = Len(tr.sleeps) + 1
                     /\ tr'.sleeps[Len(tr'.sleeps)] >= MinSleepMs
                     /\ tr'.sleeps[Len(tr'.sleeps)] <= MaxSleepMs
                     /\ tr'.pc = "request"
                     /\ tr'.attempt = tr.attempt + 1
                ELSE /\ tr'.sleeps = tr.sleeps
                     /\ tr'.pc = "raised"
         ]_vars

\* Two 429 answers, the first with a hint of 0 (so the 2 s fallback), the
\* second with a hint far above the cap, and then a third request.
C4_Witness ==
    /\ tr.requests = RequestBudget
    /\ Len(tr.sleeps) = 2
    /\ tr.sleeps[1] = RateBackoffMs
    /\ tr.sleeps[2] = MaxSleepMs
    /\ tr.depth = 0

\* C15: text that stays unparseable after repair leads to one fix call made
\* with allow_json_fix=false, the fix call never issues a further fix call,
\* and when the fix call's text is unparseable too the terminal error
\* carries the text of the first (original) answer.
C15_FixOnceThenOriginalText ==
    /\ tr.depth <= 1
    /\ tr.depth = 1 => ~tr.allow_json_fix
    /\ (tr.pc = "raised" /\ tr.depth = 1 /\ tr.error.tag = "invalid_json") =>
          tr.error.text = tr.first_text

\* How many requests of the frame were answered with the kind k.
RECURSIVE CountKind(_, _)
CountKind(kinds, k) ==
    IF kinds = << >> THEN 0
    ELSE (IF Head(kinds) = k THEN 1 ELSE 0) + CountKind(Tail(kinds), k)

\* A step that issued a request answered with the kind k.
Answered(k) ==
    /\ tr'.requests = tr.requests + 1
    /\ tr'.kinds = Append(tr.kinds, k)

\* The step slept for ms and goes on to another request.
SleptAndRetries(ms) ==
    /\ tr'.sleeps = Append(tr.sleeps, ms)
    /\ tr'.pc = "request"

\* The step raised without sleeping.
RaisedAtOnce == tr'.pc = "raised" /\ tr'.sleeps = tr.sleeps

\* C22 as stated: the n-th empty response of a call is followed by a sleep
\* of n seconds and the third ends the call; the n-th 429 is followed by a
\* sleep of the server's hint when the body carries one and else of 2 s
\* then 4 s, and the third ends the call.
C22_AsStated ==
    [][ /\ Answered("empty") =>
             LET n == CountKind(tr'.kinds, "empty")
             IN  IF n <= 2 THEN SleptAndRetries(n * 1000) ELSE RaisedAtOnce
        /\ Answered("rate") =>
             LET n == CountKind(tr'.kinds, "rate")
                 seconds == RetryDelaySeconds(tr'.last.body)
             IN  IF n <= 2
                 THEN SleptAndRetries(IF seconds # NoHint THEN seconds ELSE n * 2000)
                 ELSE RaisedAtOnce
      ]_vars

\* C22: the delay goes by the position of the request in the call, 429 and
\* empty responses counted together. An empty response to the first request
\* is followed by a sleep of 1 s and to the second by one of 2 s; a 429 to
\* the first or second request is followed by a sleep of the server's hint
\* when that is present and not 0, else of 2 s (first) or 4 s (second), the
\* sleep kept within 1 s and 65 s; an empty response or a 429 to the third
\* request raises with no sleep.
C22_RetryDelaysByPosition ==
    [][ /\ Answered("empty") =>
             CASE Len(tr.kinds) = 0 -> SleptAndRetries(1000)
               [] Len(tr.kinds) = 1 -> SleptAndRetries(2000)
               [] OTHER -> RaisedAtOnce
        /\ Answered("rate") =>
             LET seconds == RetryDelaySeconds(tr'.last.body)
                 fallback == IF Len(tr.kinds) = 0 THEN 2000 ELSE 4000
                 delay == IF seconds \notin {NoHint, 0} THEN seconds ELSE fallback
                 clamped == IF delay < 1000 THEN 1000 ELSE IF delay > 65000 THEN 65000 ELSE delay
             IN  IF Len(tr.kinds) <= 1 THEN SleptAndRetries(clamped) ELSE RaisedAtOnce
      ]_vars

\* Three empty responses: sleeps of 1 s and 2 s, then the error.
C22_Witness ==
    /\ tr.kinds = <<"empty", "empty", "empty">>
    /\ tr.depth = 0
    /\ tr.sleeps = <<1000, 2000>>
    /\ tr.pc = "raised" /\ tr.error.tag = "empty_generation"

\* C23: 429 and empty responses use up the same three requests of a frame:
\* a call with allow_json_fix=false issues at most 3 requests, a call with
\* allow_json_fix=true at most 6, 3 of its own and 3 of its one fix call,
\* and every step issues at most one request.
C23_SharedRequestBudget ==
    /\ [](/\ tr.depth \in {0, 1}
          /\ Len(tr.kinds) <= 3
          /\ tr.requests <= 3 * (tr.depth + 1)
          /\ tr.depth = 1 => ~tr.allow_json_fix)
    /\ [][ /\ tr'.requests \in {tr.requests, tr.requests + 1}
           /\ tr'.depth # tr.depth => (tr.allow_json_fix /\ tr.depth = 0)
         ]_vars

\* A 429 and an empty response in the caller's frame, then the same in the
\* fix call: six requests.
C23_Witness ==
    /\ tr.requests = 6
    /\ tr.depth = 1
    /\ "rate" \in {tr.kinds[i] : i \in 1..Len(tr.kinds)}
    /\ "empty" \in {tr.kinds[i] : i \in 1..Len(tr.kinds)}
    /\ Len(tr.sleeps) = 4

\* C24: a request that fails with an exception that is no HTTPError (a
\* timeout, a URLError) raises at once on whichever attempt: no sleep, and
\* no request after it.
C24_TransportFailureIsFinal ==
    /\ [](tr.pc = "raised" => ~ENABLED Request)
    /\ [][Answered("transport") => (RaisedAtOnce /\ tr'.error.tag = "transport")]_vars

\* A timeout on the second request, after one retried 429.
C24_Witness ==
    /\ tr.kinds = <<"rate", "transport">>
    /\ tr.pc = "raised" /\ tr.error.tag = "transport"
    /\ Len(tr.sleeps) = 1
    /\ tr.requests = 2

\* ------------------------------------------------------------------------
\* Claims about the validators
\* ------------------------------------------------------------------------

\* A validator returned after the oracle answered its query.
ValAnswered == val.pc = "returned" /\ val.seen /\ Truthy(val.oracle_text)

\* C3 as stated: whichever validator consulted the oracle, a result text
\* holding "did not understand" gives ok = false.
C3_AsStated ==
    (ValAnswered /\ Contains(val.oracle_text, DidNotUnderstand)) => ~val.result.ok

\* C3: validate_question_has_answer returns ok = false when the oracle's
\* result text holds "Wolfram|Alpha did not understand";
\* validate_hint_against_step returns the model's is_consistent as ok and
\* attaches the oracle's result, understood or not.
C3_NotUnderstoodIsNotOk ==
    (val.pc = "returned" /\ val.seen) =>
        /\ (val.op = "has_answer" /\ Truthy(val.oracle_text)
              /\ Contains(val.oracle_text, NotUnderstoodPhrase)) => ~val.result.ok
        /\ val.op = "hint_step" =>
              /\ val.result.ok = val.out.d.is_consistent
              /\ val.result.wolfram_result = val.oracle_text

\* validate_question_has_answer returned after the oracle did not understand.
C3_Witness ==
    /\ ValAnswered
    /\ val.op = "has_answer"
    /\ Contains(val.oracle_text, NotUnderstoodPhrase)
    /\ val.result.wolfram_result = val.oracle_text
    /\ ~val.result.ok

\* validate_hint_against_step has returned.
HintStepReturned == val.op = "hint_step" /\ val.pc = "returned"

\* C36: validate_hint_against_step returns the model's is_consistent as ok
\* in every case; it queries the oracle, at most once, only when the call is
\* eligible for the oracle and the model gave a non-empty query, and the
\* oracle's result is attached as it came, absent when there was no query.
C36_HintStepOkIsModelJudgment ==
    val.op = "hint_step" =>
        /\ val.oracle_calls <= 1
        /\ val.oracle_calls = 1 =>
              /\ val.use_wolfram_arg /\ val.use_wolfram /\ val.classifier_calls = 1
              /\ val.wolfram_query # EmptyStr
              /\ val.wolfram_query = Strip(val.out.d.wolfram_query)
        /\ HintStepReturned =>
              /\ val.result.ok = val.out.d.is_consistent
              /\ val.model_calls = 1
              /\ val.oracle_calls = 1 <=>
                    (val.use_wolfram /\ Truthy(val.out.d.wolfram_query)
                        /\ Strip(val.out.d.wolfram_query) # EmptyStr)
              /\ val.result.wolfram_result =
                    IF val.oracle_calls = 1 THEN val.oracle_text ELSE NoneVal

\* The model judged the hint consistent and the oracle did not understand
\* the query: ok stays true and the oracle's text is attached.
C36_Witness ==
    /\ HintStepReturned
    /\ val.oracle_calls = 1
    /\ val.out.d.is_consistent
    /\ val.result.ok
    /\ Truthy(val.oracle_text)
    /\ Contains(val.oracle_text, NotUnderstoodPhrase)
    /\ val.result.wolfram_result = val.oracle_text

\* The model judged the hint inconsistent and the oracle answered.
C36_WitnessInconsistent ==
    /\ HintStepReturned
    /\ val.oracle_calls = 1
    /\ ~val.result.ok
    /\ val.result.wolfram_result = <<"4", "2">>

\* validate_question_has_answer is past its entry in oracle mode.
HasAnswerOracleMode ==
    /\ val.op = "has_answer"
    /\ val.use_wolfram
    /\ val.pc \in {"oracle", "returned", "raised"}

\* C37: in oracle mode validate_question_has_answer makes exactly one model
\* call for the query and then at most one oracle query; ok is true exactly
\* when the oracle returned a non-empty result without the not-understood
\* phrase; when the model call fails or gives no query the validator
\* returns ok = false without an oracle query and without raising.
C37_HasAnswerOracleMode ==
    HasAnswerOracleMode =>
        /\ val.model_calls = 1
        /\ val.oracle_calls <= 1
        /\ val.pc = "oracle" => val.oracle_calls = 0
        /\ val.pc = "returned" =>
              (val.result.ok <=>
                  /\ val.oracle_calls = 1
                  /\ Truthy(val.oracle_text)
                  /\ ~Contains(val.oracle_text, NotUnderstoodPhrase))
        /\ (val.out.shape = "raise" \/ QueryOf(val.out) = EmptyStr) =>
              /\ val.pc = "returned"
              /\ ~val.result.ok
              /\ val.oracle_calls = 0
              /\ val.result.wolfram_query = NoneVal
              /\ val.result.wolfram_result = NoneVal

\* The oracle answered the one query: ok is true.
C37_Witness ==
    /\ HasAnswerOracleMode
    /\ val.pc = "returned"
    /\ val.result.ok
    /\ val.model_calls = 1 /\ val.oracle_calls = 1
    /\ val.result.wolfram_result = <<"4", "2">>

\* The model call raised: ok = false is returned and the oracle is not asked.
C37_WitnessFailure ==
    /\ HasAnswerOracleMode
    /\ val.pc = "returned"
    /\ val.out.shape = "raise"
    /\ ~val.result.ok
    /\ val.oracle_calls = 0

\* ------------------------------------------------------------------------
\* Claims about the question generation engine
\* ------------------------------------------------------------------------

\* C1 as stated: a call with use_wolfram=true never returns an empty
\* wolfram_query, whatever the classifier said.
C1_AsStated ==
    (gq.pc = "returned" /\ gq.use_wolfram_arg) => gq.result.wolfram_query # EmptyStr

\* C1: a call with use_wolfram=true returns an empty wolfram_query exactly
\* when the classifier was asked about a non-empty context and did not answer
\* true; with an empty context, or a classifier answering true, the returned
\* wolfram_query is never empty.
C1_OracleModeHasQuery ==
    (gq.pc = "returned" /\ gq.use_wolfram_arg) =>
        /\ (gq.result.wolfram_query = EmptyStr) <=>
              (gq.classifier_calls = 1 /\ gq.classified = "false")
        /\ gq.context_str = EmptyStr =>
              (gq.classifier_calls = 0 /\ gq.result.wolfram_query # EmptyStr)

\* A call with use_wolfram=true and an empty context returned a question
\* with its query, without asking the classifier.
C1_Witness ==
    /\ gq.pc = "returned" /\ gq.use_wolfram_arg
    /\ gq.context_str = EmptyStr
    /\ gq.classifier_calls = 0
    /\ gq.result.wolfram_query = <<"W">>

\* C2: as long as every generation answer lacks its required field, the k-th
\* generation call is made in attempt k, no oracle query, no validator call
\* and no validation-prompt call is made, nothing is returned, and the call
\* raises exactly when max_attempts generation calls were made.
C2_ExactlyNAttempts ==
    /\ gq.gen_calls <= gq.max_attempts
    /\ (gq.all_omitted /\ gq.pc \notin {"idle", "start", "classify"}) =>
          /\ gq.oracle_calls = 0 /\ gq.vp_calls = 0 /\ gq.validator_calls = 0
          /\ gq.pc \in {"generate", "raised"}
          /\ gq.pc = "generate" =>
                (gq.gen_calls = gq.attempt - 1 /\ gq.gen_calls < gq.max_attempts)
          /\ gq.pc = "raised" =>
                (gq.error.kind = "exhausted" /\ gq.gen_calls = gq.max_attempts)

\* Three generation answers without wolfram_query in oracle mode, then the raise.
C2_Witness ==
    /\ gq.pc = "raised" /\ gq.all_omitted
    /\ gq.max_attempts = 3 /\ gq.gen_calls = 3
    /\ gq.use_wolfram
    /\ gq.tags = <<"missing_wolfram_query", "missing_wolfram_query", "missing_wolfram_query">>

FailureTags ==
    {"invalid_output_shape", "missing_question", "missing_wolfram_query",
     "missing_answer", "wolfram_no_answer"}

\* C8: the error raised after the loop carries the tag of the last failed
\* attempt (for wolfram_no_answer with the oracle's latest text), every one of
\* the max_attempts attempts having failed with one of the five tags; and a
\* call whose attempts all failed ends with that error.
C8_ExhaustedCarriesLastTag ==
    /\ (gq.pc = "raised" /\ gq.error.kind = "exhausted" /\ gq.max_attempts >= 1) =>
          /\ Len(gq.tags) = gq.max_attempts
          /\ \A i \in 1..Len(gq.tags) : gq.tags[i] \in FailureTags
          /\ gq.error.message.tag = gq.tags[Len(gq.tags)]
          /\ gq.error.message.tag = "wolfram_no_answer" =>
                gq.error.message.detail = gq.oracle_text
    /\ (gq.max_attempts >= 1 /\ Len(gq.tags) = gq.max_attempts) =>
          (gq.pc = "raised" /\ gq.error.kind = "exhausted")
    /\ gq.pc = "returned" => Len(gq.tags) < gq.max_attempts

\* The budget of three ran out on a not-understood oracle answer, after two
\* attempts that failed for other reasons.
C8_Witness ==
    /\ gq.pc = "raised" /\ gq.error.kind = "exhausted"
    /\ gq.tags = <<"missing_question", "missing_wolfram_query", "wolfram_no_answer">>
    /\ gq.error.message.tag = "wolfram_no_answer"
    /\ gq.error.message.detail = Strip(BodyNotUnderstood)

\* C9: a returned GeneratedQuestion has a question and an answer that are not
\* blank; in oracle mode the answer is the oracle's text, which does not hold
\* the not-understood phrase.
C9_ReturnedIsAnswerable ==
    gq.pc = "returned" =>
        /\ Strip(gq.result.question) # EmptyStr
        /\ Strip(gq.result.answer) # EmptyStr
        /\ gq.use_wolfram =>
              /\ gq.result.answer = gq.oracle_text
              /\ ~Contains(gq.result.answer, NotUnderstoodPhrase)

\* A question returned in oracle mode after an attempt the oracle refused.
C9_Witness ==
    /\ gq.pc = "returned" /\ gq.use_wolfram
    /\ gq.tags = <<"wolfram_no_answer">>
    /\ gq.result.answer = Strip(BodyResult)

\* C14: during generate_question the oracle is queried only if the subject
\* classifier was called on the assembled context and answered true; with an
\* empty assembled context the oracle is never queried.
C14_OracleOnlyAfterClassifierTrue ==
    /\ gq.oracle_calls > 0 => (gq.classifier_calls = 1 /\ gq.classified = "true")
    /\ gq.context_str = EmptyStr => gq.oracle_calls = 0

\* C16: inside generate_question a contract violation of a generation call
\* (a missing required field, a wrong shape, text that stays unparseable
\* after repair and the fix call) consumes one attempt and is followed by a
\* new generation call while attempts remain; the caller sees the error of
\* such a violation only once max_attempts generation calls were made.
C16_ViolationsAreRetried ==
    (gq.pc = "raised"
        /\ \/ gq.error.kind = "exhausted"
           \/ gq.error.kind = "collaborator" /\ gq.error.message.tag = "invalid_json") =>
        gq.gen_calls = gq.max_attempts

\* The difficulty the caller's session has once clamped into [1,5].
GQClampedInput ==
    IF gq.session.difficulty_level < 1 THEN 1
    ELSE IF gq.session.difficulty_level > 5 THEN 5
    ELSE gq.session.difficulty_level

\* The history passed in ends with three correct answers.
GQThreeCorrect ==
    LET h == gq.question_answer_history
    IN  /\ Len(h) >= 3
        /\ \A i \in (Len(h) - 2)..Len(h) : h[i].has_correct /\ h[i].correct

\* One adjustment step on the caller's (adaptive) session for these histories.
GQAdjustedOnce ==
    IF gq.session.adaptive /\ GQThreeCorrect /\ GQClampedInput < 5
    THEN GQClampedInput + 1 ELSE GQClampedInput

\* C27: the difficulty written into the prompt of every generation call of
\* generate_question, and the difficulty_level the returned metadata gets by
\* default, is that of adjust_session_parameters(session, history): one
\* step from the caller's clamped difficulty, also when the caller's session
\* is itself the result of an earlier adjustment with the same history.
C27_AdjustedOnceInPrompt ==
    gq.pc \notin {"idle", "start"} =>
        /\ GQAdjustedOnce =
              AdjustSessionParameters(gq.session, gq.question_answer_history).difficulty_level
        /\ Len(gq.prompts) = gq.gen_calls
        /\ \A i \in 1..Len(gq.prompts) : gq.prompts[i] = GQAdjustedOnce
        /\ (gq.pc = "returned" /\ ~(gq.raw_metadata.is_dict /\ gq.raw_metadata.has_difficulty)) =>
              gq.result.metadata.difficulty_level = GQAdjustedOnce

\* The caller passes difficulty 4 (what adjusting 3 with three correct
\* answers gives) with the same history: two prompts and the default
\* metadata carry 5.
C27_Witness ==
    /\ gq.pc = "returned"
    /\ gq.session.difficulty_level = 4 /\ GQThreeCorrect
    /\ gq.prompts = <<5, 5>>
    /\ ~gq.raw_metadata.is_dict
    /\ gq.result.metadata.difficulty_level = 5

\* The oracle step of this transition ended without an answer: result_text
\* returned None, "" or a text with the not-understood phrase.
OracleGaveNoAnswer ==
    /\ gq.pc = "oracle"
    /\ gq'.oracle_calls = gq.oracle_calls + 1
    /\ gq'.error.kind # "collaborator"
    /\ ~Truthy(gq'.oracle_text) \/ Contains(gq'.oracle_text, NotUnderstoodPhrase)

\* C28: in oracle mode an oracle result that is None, empty or holds the
\* not-understood phrase fails the attempt with the tag wolfram_no_answer;
\* the next generation call follows while attempts remain and the
\* exhaustion error is raised only after the last; an attempt queries the
\* oracle at most once.
C28_OracleNoAnswerConsumesAttempt ==
    /\ [](gq.oracle_calls <= gq.gen_calls /\ gq.gen_calls <= gq.max_attempts)
    /\ [][ /\ OracleGaveNoAnswer =>
                /\ gq'.tags = Append(gq.tags, "wolfram_no_answer")
                /\ gq'.last_error.tag = "wolfram_no_answer"
                /\ gq'.gen_calls = gq.gen_calls
                /\ IF gq.attempt < gq.max_attempts
                   THEN gq'.pc = "generate" /\ gq'.attempt = gq.attempt + 1
                   ELSE gq'.pc = "raised" /\ gq'.error.kind = "exhausted"
           /\ gq'.oracle_calls # gq.oracle_calls =>
                /\ gq.pc = "oracle" /\ gq'.pc # "oracle"
                /\ gq'.oracle_calls = gq.oracle_calls + 1
                /\ gq.oracle_calls < gq.gen_calls
         ]_vars

\* Two attempts failed on the oracle and the third was answered.
C28_Witness ==
    /\ gq.pc = "returned"
    /\ gq.tags = <<"wolfram_no_answer", "wolfram_no_answer">>
    /\ gq.gen_calls = 3 /\ gq.oracle_calls = 3
    /\ gq.result.answer = gq.oracle_text

\* is oracle-eligible: use_wolfram was asked for and the classifier, called
\* on the assembled context, said true (an empty context is not eligible).
GQOracleEligible == gq.use_wolfram_arg /\ gq.classified = "true"

\* C29: a returned answer of an oracle-eligible call is the oracle's result
\* for the returned wolfram_query; that of a call that is not eligible is
\* the model's (or the validator's) answer with an empty wolfram_query, and
\* such a call never queries the oracle.
C29_AnswerProvenance ==
    /\ (gq.pc \notin {"idle", "start", "classify"} /\ ~GQOracleEligible) => gq.oracle_calls = 0
    /\ gq.pc = "returned" =>
          IF GQOracleEligible
          THEN /\ gq.result.answer = gq.oracle_text
               /\ gq.result.wolfram_query = gq.wolfram_query
               /\ gq.oracle_calls >= 1
          ELSE /\ gq.result.answer = gq.answer_llm
               /\ gq.result.wolfram_query = EmptyStr

\* C30: the returned metadata has verified_with_wolfram true exactly when
\* the answer came from the oracle, and a difficulty_level in [1,5],
\* whatever metadata the model wrote.
C30_MetadataReflectsCall ==
    gq.pc = "returned" =>
        /\ gq.result.metadata.verified_with_wolfram
              = (gq.oracle_calls >= 1 /\ gq.result.answer = gq.oracle_text)
        /\ gq.result.metadata.difficulty_level \in 1..5

\* The validator answered ok with an answer that is not blank.
RecoveredAnswer(out) ==
    /\ out.shape \in {"dict", "list_dict"}
    /\ out.d.ok
    /\ out.d.answer # NoneVal
    /\ Strip(out.d.answer) # EmptyStr

\* C31: a non-oracle attempt whose answer has a question and no answer
\* makes one validator call and no classifier call or oracle query; with ok
\* and a non-empty answer the attempt goes on with that answer, and with
\* not-ok, an empty answer or an error it fails with missing_answer and the
\* loop goes to the next attempt (or to the exhaustion error after the last).
C31_OneShotRecovery ==
    /\ [](/\ gq.validator_calls <= gq.gen_calls
          /\ gq.pc = "recover" =>
                (~gq.use_wolfram /\ gq.question # EmptyStr /\ gq.answer_llm = EmptyStr))
    /\ [][ /\ gq'.validator_calls # gq.validator_calls =>
                (gq.pc = "recover" /\ gq.validator_calls < gq.gen_calls)
           /\ gq.pc = "recover" =>
                \A out \in HasAnswerOutcomes :
                   gq' = GQAfterRecovery(gq, out) =>
                     /\ gq'.validator_calls = gq.validator_calls + 1
                     /\ gq'.classifier_calls = gq.classifier_calls
                     /\ gq'.oracle_calls = gq.oracle_calls
                     /\ gq'.gen_calls = gq.gen_calls
                     /\ IF RecoveredAnswer(out)
                        THEN /\ gq'.pc = "validation_prompt"
                             /\ gq'.final_answer = Strip(out.d.answer)
                             /\ gq'.tags = gq.tags
                        ELSE /\ gq'.tags = Append(gq.tags, "missing_answer")
                             /\ IF gq.attempt < gq.max_attempts
                                THEN gq'.pc = "generate" /\ gq'.attempt = gq.attempt + 1
                                ELSE gq'.pc = "raised" /\ gq'.error.kind = "exhausted"
         ]_vars

\* The first attempt failed its recovery, the second recovered the answer.
C31_Witness ==
    /\ gq.pc = "returned"
    /\ ~gq.use_wolfram
    /\ gq.tags = <<"missing_answer">>
    /\ gq.gen_calls = 2 /\ gq.validator_calls = 2
    /\ gq.oracle_calls = 0 /\ gq.classifier_calls = 0
    /\ gq.result.answer = <<"A">>

\* C33: a returned generate_question has made exactly one validation-prompt
\* call; the call is made only for an attempt that passed every acceptance
\* check with its answer resolved, and never for a failed attempt or an
\* exhausted budget.
C33_OneValidationPromptCall ==
    /\ [](/\ gq.vp_calls <= 1
          /\ gq.pc = "returned" => gq.vp_calls = 1
          /\ gq.pc \in {"generate", "recover", "oracle", "validation_prompt",
                        "classify", "start"} => gq.vp_calls = 0
          /\ (gq.pc = "raised" /\ gq.error.kind = "exhausted") => gq.vp_calls = 0
          /\ gq.pc = "validation_prompt" =>
                /\ Len(gq.tags) = gq.attempt - 1
                /\ gq.gen_calls = gq.attempt
                /\ gq.question # EmptyStr
                /\ gq.final_answer # EmptyStr
                /\ gq.use_wolfram =>
                      /\ gq.wolfram_query # EmptyStr
                      /\ gq.final_answer = gq.oracle_text
                      /\ ~Contains(gq.oracle_text, NotUnderstoodPhrase))
    /\ [][ gq'.vp_calls # gq.vp_calls =>
              /\ gq.pc = "validation_prompt"
              /\ gq'.tags = gq.tags
              /\ gq'.pc \in {"returned", "raised"}
         ]_vars

\* Two attempts failed, the third was accepted, and only then was the
\* validation prompt built.
C33_Witness ==
    /\ gq.pc = "returned"
    /\ gq.vp_calls = 1
    /\ Len(gq.tags) = 2
    /\ gq.gen_calls = 3
    /\ gq.result.validation_prompt = <<"V">>

\* ------------------------------------------------------------------------
\* Claims about the hint generation engine
\* ------------------------------------------------------------------------

\* C10: once every one of the max_attempts hint attempts has failed its
\* acceptance test or its oracle verification, generate_hint has returned
\* (not raised) a HintResponse of kind hint whose text is the stripped text
\* field of the last attempt's answer, with no wolfram_query and no
\* wolfram_result.
C10_FallbackToLastText ==
    (Len(hint.issues) = hint.max_attempts
        /\ hint.pc \notin {"idle", "start", "classify"}) =>
        /\ hint.pc = "returned"
        /\ hint.result.kind = KindHint
        /\ hint.result.text =
              IF hint.max_attempts = 0 THEN EmptyStr
              ELSE StrOrEmpty(hint.texts[hint.max_attempts])
        /\ hint.result.wolfram_query = NoneVal
        /\ hint.result.wolfram_result = NoneVal

\* Two attempts failed, the second on the oracle; the text returned is the
\* second answer's and differs from the first's.
C10_Witness ==
    /\ hint.pc = "returned"
    /\ hint.max_attempts = 2
    /\ hint.issues = <<"invalid_kind_or_missing_text", "wolfram_unverifiable_hint">>
    /\ hint.oracle_calls = 1
    /\ hint.texts = << <<"T", "1", " ">>, <<"T", "2">> >>
    /\ hint.result.text = <<"T", "2">>

\* The call went through all its attempts and returned the fallback.
HFellBack == hint.pc = "returned" /\ Len(hint.issues) = hint.max_attempts

\* C11 as stated: every HintResponse returned has a kind in {followup, hint}
\* and a non-empty text, the fallback after exhaustion included.
C11_AsStated ==
    hint.pc = "returned" =>
        /\ hint.result.kind \in {KindFollowup, KindHint}
        /\ hint.result.text # EmptyStr

\* C11, amended: every HintResponse returned has a kind in {followup, hint};
\* one returned from an accepted attempt has a non-empty text with no blank
\* at either end; the fallback's text is empty exactly when the last answer
\* had no text (or no attempt was made).
C11_AcceptedHasText ==
    hint.pc = "returned" =>
        /\ hint.result.kind \in {KindFollowup, KindHint}
        /\ ~HFellBack =>
              /\ hint.result.text # EmptyStr
              /\ hint.result.text = Strip(hint.result.text)
              /\ hint.result.text = StrOrEmpty(hint.last_out.text)
        /\ HFellBack =>
              (hint.result.text = EmptyStr <=>
                  (hint.max_attempts = 0 \/ StrOrEmpty(hint.last_out.text) = EmptyStr))

\* A hint accepted at the second attempt, after a first answer with a blank
\* text was refused.
C11_Witness ==
    /\ hint.pc = "returned"
    /\ hint.attempt = 2
    /\ hint.issues = <<"invalid_kind_or_missing_text">>
    /\ hint.texts[1] = <<" ">>
    /\ hint.result.kind = KindHint
    /\ hint.result.text = <<"T", "1">>

\* C12: a HintResponse of kind followup has no hint_type, no wolfram_query
\* and no wolfram_result, also when the answer carried a query, and the
\* oracle was not queried in the attempt that returned it.
C12_FollowupHasNoOracleFields ==
    /\ [](hint.pc = "returned" /\ hint.result.kind = KindFollowup =>
            /\ hint.result.hint_type = NoneVal
            /\ hint.result.wolfram_query = NoneVal
            /\ hint.result.wolfram_result = NoneVal
            /\ hint.attempt \notin hint.queried)
    /\ [][hint.pc = "oracle" => hint'.result.kind # KindFollowup]_vars

\* A followup returned in oracle mode from an answer that carried a query,
\* after an earlier attempt had queried the oracle.
C12_Witness ==
    /\ hint.pc = "returned"
    /\ hint.result.kind = KindFollowup
    /\ hint.use_wolfram
    /\ Truthy(StripOrNone(hint.last_out.wolfram_query))
    /\ hint.attempt = 2
    /\ hint.queried = {1}

\* ------------------------------------------------------------------------
\* Claims about the subject classifier
\* ------------------------------------------------------------------------

\* The context is None, empty or all blanks.
ClsBlank == cls.context_text = NoneVal \/ Strip(cls.context_text) = EmptyStr

\* C13: the subject classifier returns false for an empty or blank context
\* without any model call, returns false whenever its classification call
\* fails (generate_json raises, or the answer is no dict), and never leaves
\* with an exception.
C13_ClassifierFailsClosed ==
    /\ cls.pc # "raised"
    /\ cls.pc \notin {"idle", "start"} /\ ClsBlank =>
          cls.pc = "returned" /\ ~cls.result /\ cls.calls = 0
    /\ cls.pc = "returned" /\ cls.outcome \in {"raise", "other"} => ~cls.result
    /\ cls.pc = "returned" /\ cls.result => cls.calls = 1 /\ cls.outcome = "dict"

\* The classification call raised on a context with a letter in it, and the
\* classifier returned false.
C13_Witness ==
    /\ cls.pc = "returned"
    /\ cls.context_text = <<" ", "m">>
    /\ cls.outcome = "raise"
    /\ cls.calls = 1
    /\ ~cls.result

\* A context of blanks alone was answered false with no call.
C13_WitnessBlank ==
    /\ cls.pc = "returned"
    /\ cls.context_text = <<" ", " ">>
    /\ cls.calls = 0

\* ------------------------------------------------------------------------
\* Claims about the parsing and repair of model text
\* ------------------------------------------------------------------------

\* _parse_model_json has returned or raised.
RpDone == rp.pc \in {"returned", "raised"}

\* C17: a document with a trailing comma before its closing brace, wrapped
\* in a closed code fence with a language tag, parses (through the repair)
\* to the value of the document itself, without fence and comma.
C17_FencedTrailingCommaRoundTrip ==
    (RpDone /\ rp.damage = "comma" /\ rp.wrapper \in TaggedFences) =>
        /\ rp.pc = "returned"
        /\ rp.used_repair
        /\ JsonLoads(rp.doc).ok
        /\ rp.value = JsonLoads(rp.doc).v
        /\ rp.repaired = rp.doc

\* The text ```json {"a":1,} ``` (with line breaks) was parsed to {"a": 1}.
C17_Witness ==
    /\ rp.pc = "returned"
    /\ rp.doc = DocNumber /\ rp.damage = "comma" /\ rp.sep = <<",">>
    /\ rp.wrapper = "fenced_tag"
    /\ rp.used_repair
    /\ rp.value = JObj(<< <<(<<"a">>), JNum(1)>> >>)

\* The text was cut off inside a str value of the document.
CutInValue ==
    /\ rp.damage = "cut"
    /\ \E vs \in ValueStrings : vs.doc = rp.doc /\ rp.cut \in vs.from..vs.to

\* The brackets open where the text was cut off, innermost first.
CutClosers == (CHOOSE vs \in ValueStrings : vs.doc = rp.doc /\ rp.cut \in vs.from..vs.to).closers

\* The cut text with a closing quote and then the missing closers.
CutCompleted == SubSeq(rp.doc, 1, rp.cut) \o <<Quote>> \o CutClosers

\* The text was cut off right after a backslash that begins an escape.
RECURSIVE TrailingBackslashes(_)
TrailingBackslashes(s) ==
    IF s # << >> /\ s[Len(s)] = Backslash
    THEN 1 + TrailingBackslashes(SubSeq(s, 1, Len(s) - 1)) ELSE 0

CutInEscape == TrailingBackslashes(SubSeq(rp.doc, 1, rp.cut)) % 2 = 1

EscapedCandidate == EscapeNewlinesInJsonStrings(ExtractJsonCandidate(rp.text))

\* The text was cut off right after a comma that separates two members,
\* and the candidate span still ends with that comma.
CutAfterComma ==
    /\ rp.damage = "cut"
    /\ rp.doc[rp.cut] = ","
    /\ ~CutInValue
    /\ EscapedCandidate[Len(EscapedCandidate)] = ","

\* C38 as stated: fences stripped, candidate span extracted, control
\* characters escaped, trailing commas stripped, and only then the open
\* string, brackets and braces closed at the end.
C38_AsStated ==
    rp.used_repair =>
        rp.repaired = Strip(CloseUnbalancedJson(StripTrailingCommas(EscapedCandidate)))

\* C38, amended: the open string, brackets and braces are closed first and
\* the trailing commas are stripped from the closed text, so that a comma
\* the text was cut off after, which the appended closer now follows, is
\* removed and the repaired text parses.
C38_CloseThenStripCommas ==
    rp.used_repair =>
        /\ rp.repaired = Strip(StripTrailingCommas(CloseUnbalancedJson(EscapedCandidate)))
        /\ CutAfterComma =>
              /\ rp.pc = "returned"
              /\ rp.repaired # Strip(CloseUnbalancedJson(StripTrailingCommas(EscapedCandidate)))
              /\ ~JsonLoads(Strip(CloseUnbalancedJson(StripTrailingCommas(EscapedCandidate)))).ok

\* {"a":["x1",  was repaired to {"a":["x1"]} : closers added, comma removed.
C38_Witness ==
    /\ rp.pc = "returned"
    /\ rp.used_repair
    /\ rp.doc = DocArray /\ rp.damage = "cut" /\ rp.cut = 11
    /\ CutAfterComma
    /\ rp.repaired = SubSeq(DocArray, 1, 10) \o <<"]", "}">>
    /\ rp.value = JObj(<< <<(<<"a">>), JArr(<<JStr(<<"x", "1">>)>>)>> >>)

\* ------------------------------------------------------------------------
\* Claims about prompt compression
\* ------------------------------------------------------------------------

\* C19: a failure of the compressor (obtaining or constructing its client,
\* or compressing a text) never makes generate_json fail; the original text
\* is sent unchanged instead.
C19_CompressorFailuresAbsorbed ==
    /\ cmp.pc # "raised"
    /\ (cmp.pc = "returned" /\ cmp.failed # "none") => cmp.sent = "original"

\* len(text.strip()) of the text handed to _compress_text.
StrippedLen == cmp.text.len - cmp.text.blanks

\* _compress_text returned holding a compressor client.
CmpReturnedWithClient ==
    /\ cmp.pc = "returned"
    /\ cmp.tokenc_api_key /\ cmp.tokenc_enabled
    /\ cmp.failed \notin {"import", "construct"}

\* C39 as stated: a text is handed to the compressor only when its length
\* is above 400, and a text of 400 characters or fewer is sent unchanged.
C39_AsStated ==
    /\ cmp.compress_calls >= 1 => cmp.text.len > CompressThreshold
    /\ (cmp.pc = "returned" /\ cmp.text.len <= CompressThreshold) => cmp.sent = "original"

\* C39, amended: with a compressor client at hand a text is handed to the
\* compressor, once, exactly when its length without leading and trailing
\* whitespace is at least 400; a text whose stripped length is below 400 is
\* sent unchanged.
C39_CompressFromThreshold ==
    /\ cmp.compress_calls <= 1
    /\ cmp.compress_calls = 1 => StrippedLen >= CompressThreshold
    /\ (cmp.pc = "returned" /\ StrippedLen < CompressThreshold) =>
          (cmp.sent = "original" /\ cmp.compress_calls = 0)
    /\ (CmpReturnedWithClient /\ StrippedLen >= CompressThreshold) =>
          cmp.compress_calls = 1

\* A text of exactly 400 characters, none of them surrounding whitespace,
\* was compressed.
C39_Witness ==
    /\ cmp.pc = "returned"
    /\ cmp.text.len = CompressThreshold /\ cmp.text.blanks = 0
    /\ cmp.compress_calls = 1
    /\ cmp.sent = "compressed"

\* A text of 401 characters, two of them surrounding whitespace, was sent
\* unchanged although a compressor client was at hand.
C39_WitnessBlanks ==
    /\ CmpReturnedWithClient
    /\ cmp.text.len = CompressThreshold + 1 /\ cmp.text.blanks = 2
    /\ cmp.compress_calls = 0
    /\ cmp.sent = "original"

\* generate_hint returned from inside an attempt, not from the fallback
\* that follows the last failed attempt.
HReturnedFromAttempt ==
    /\ hint.pc = "returned"
    /\ Len(hint.issues) = hint.attempt - 1

\* The answer `out` of a hint call is a valid hint.
HValidHint(out) ==
    /\ out.shape = "dict"
    /\ StrOrEmpty(out.d.kind) = KindHint
    /\ StrOrEmpty(out.d.text) # EmptyStr

\* The hint call failed its attempt with the unverifiable-hint issue.
HUnverifiable ==
    /\ hint'.issues = Append(hint.issues, "wolfram_unverifiable_hint")
    /\ IF hint.attempt < hint.max_attempts
       THEN hint'.pc = "generate" /\ hint'.attempt = hint.attempt + 1
       ELSE hint'.pc = "returned" /\ hint'.result.wolfram_result = NoneVal

\* C35: with the oracle in use, generate_hint returns a hint from an attempt
\* only with a non-empty declared query whose oracle result is non-empty and
\* understood, and a hint with no query or with an absent or not-understood
\* result fails the attempt as unverifiable; a returned response with a
\* wolfram_result has a wolfram_query and kind hint. Without the oracle the
\* first valid hint is returned with both oracle fields absent and no oracle
\* query is made.
C35_HintOracleAcceptance ==
    /\ [](/\ (HReturnedFromAttempt /\ hint.use_wolfram /\ hint.result.kind = KindHint) =>
                /\ Truthy(hint.result.wolfram_query)
                /\ Truthy(hint.result.wolfram_result)
                /\ ~Contains(hint.result.wolfram_result, NotUnderstoodPhrase)
                /\ hint.attempt \in hint.queried
          /\ (hint.pc = "returned" /\ hint.result.wolfram_result # NoneVal) =>
                /\ hint.result.wolfram_query # NoneVal
                /\ hint.result.kind = KindHint
          /\ (hint.pc \notin {"start", "classify", "idle"} /\ ~hint.use_wolfram) =>
                /\ hint.oracle_calls = 0
                /\ hint.pc = "returned" =>
                      /\ hint.result.wolfram_query = NoneVal
                      /\ hint.result.wolfram_result = NoneVal)
    /\ [][ /\ (hint.pc = "generate" /\ ~hint.use_wolfram) =>
                \A out \in HintOutcomes :
                   (HValidHint(out) /\ hint' = HAfterGeneration(hint, out)) =>
                      /\ hint'.pc = "returned"
                      /\ hint'.issues = hint.issues
                      /\ hint'.result.kind = KindHint
                      /\ hint'.result.text = StrOrEmpty(out.d.text)
           /\ (hint.pc = "generate" /\ hint.use_wolfram) =>
                \A out \in HintOutcomes :
                   (/\ HValidHint(out)
                    /\ ~Truthy(StripOrNone(out.d.wolfram_query))
                    /\ hint' = HAfterGeneration(hint, out)) =>
                      HUnverifiable /\ hint'.oracle_calls = hint.oracle_calls
           /\ hint.pc = "oracle" =>
                \A reply \in OracleReplies :
                   LET rt == ResultText(hint.wq, reply)
                   IN  (/\ ~rt.raised
                        /\ ~Truthy(rt.value) \/ Contains(rt.value, NotUnderstoodPhrase)
                        /\ hint' = HAfterOracle(hint, reply)) => HUnverifiable
         ]_vars

\* The query of a first hint was not understood by the oracle, and the
\* second hint was returned with the oracle's result.
C35_Witness ==
    /\ HReturnedFromAttempt
    /\ hint.use_wolfram
    /\ hint.attempt = 2
    /\ hint.issues = <<"wolfram_unverifiable_hint">>
    /\ hint.queried = {1, 2}
    /\ hint.result.kind = KindHint
    /\ hint.result.wolfram_result = <<"4", "2">>

\* Without the oracle the second attempt gave the first valid hint.
C35_WitnessDisabled ==
    /\ HReturnedFromAttempt
    /\ ~hint.use_wolfram
    /\ hint.attempt = 2
    /\ hint.result.kind = KindHint
    /\ hint.result.text # EmptyStr

\* ------------------------------------------------------------------------
\* Claims about both attempt loops
\* ------------------------------------------------------------------------

\* C32: in generate_question and in generate_hint the k-th generation call
\* is made with the attempt number k, the first with no failure reason and
\* every later one with the reason attempt k-1 failed for.
C32_PreviousIssueFedBack ==
    /\ Len(gq.extras) = gq.gen_calls
    /\ Len(gq.extras) <= Len(gq.tags) + 1
    /\ \A k \in 1..Len(gq.extras) :
          /\ gq.extras[k].attempt = k
          /\ k = 1 => gq.extras[k].previous_issue = NoLastError
          /\ k >= 2 => gq.extras[k].previous_issue.tag = gq.tags[k - 1]
    /\ Len(hint.extras) = hint.gen_calls
    /\ Len(hint.extras) <= Len(hint.issues) + 1
    /\ \A k \in 1..Len(hint.extras) :
          /\ hint.extras[k].attempt = k
          /\ k = 1 => hint.extras[k].previous_issue = "None"
          /\ k >= 2 => hint.extras[k].previous_issue = hint.issues[k - 1]

\* A third generation call made after a missing question and then a
\* missing wolfram_query.
C32_Witness ==
    /\ gq.gen_calls = 3
    /\ gq.tags[1] = "missing_question"
    /\ gq.tags[2] = "missing_wolfram_query"
    /\ gq.extras[3].previous_issue.tag = "missing_wolfram_query"
    /\ gq.extras[2].previous_issue.tag = "missing_question"

\* A second hint call made after an unverifiable hint.
C32_WitnessHint ==
    /\ hint.gen_calls = 2
    /\ hint.extras[2].previous_issue = "wolfram_unverifiable_hint"

\* C34: each call of generate_question, generate_hint,
\* validate_question_has_answer and validate_hint_against_step asks the
\* subject classifier at most once, whatever the number of attempts, and
\* not at all when it is passed use_wolfram = false; the validator call
\* made for answer recovery asks the classifier nothing.
C34_ClassifierOncePerCall ==
    /\ [](/\ gq.classifier_calls <= 1
          /\ hint.classifier_calls <= 1
          /\ val.classifier_calls <= 1
          /\ ~gq.use_wolfram_arg => gq.classifier_calls = 0
          /\ ~hint.use_wolfram_arg => hint.classifier_calls = 0
          /\ ~val.use_wolfram_arg => val.classifier_calls = 0
          /\ gq.attempt >= 1 => gq.pc # "classify"
          /\ hint.attempt >= 1 => hint.pc # "classify"
          /\ val.model_calls >= 1 => val.pc # "classify")
    /\ [][ gq'.validator_calls # gq.validator_calls =>
              gq'.classifier_calls = gq.classifier_calls ]_vars

\* generate_question went through three attempts after one classification.
C34_Witness ==
    /\ gq.use_wolfram_arg
    /\ gq.classifier_calls = 1
    /\ gq.gen_calls = 3

\* A recovery call made in a call whose classifier said no.
C34_WitnessRecovery ==
    /\ gq.use_wolfram_arg
    /\ gq.classifier_calls = 1
    /\ gq.validator_calls = 1

\* The hint validator asked the classifier once and then the oracle.
C34_WitnessValidator ==
    /\ val.op = "hint_step"
    /\ val.classifier_calls = 1
    /\ val.oracle_calls = 1
    /\ val.pc = "returned"

\* ------------------------------------------------------------------------
\* Claims about the HTTP service
\* ------------------------------------------------------------------------

\* The pending questions with the given questionId.
PendingWithId(id) == { i \in 1..Len(api.pending) : api.pending[i].questionId = id }

\* What the finished requestQuestion requests did and were answered with.
C20_Answered ==
    \A r \in Requests :
       LET q == api.reqs[r]
       IN  (q.op = "requestQuestion" /\ q.pc = "done" /\ q.session \in SessionIds) =>
             /\ q.found # NoPending =>
                   /\ q.gen_calls = 0 /\ q.inserts = 0 /\ q.status = 200
                   /\ q.found.sessionID = q.session
                   /\ q.questionId = q.found.questionId
                   /\ q.content = q.found.content
             /\ (q.found = NoPending /\ q.status = 200) =>
                   q.gen_calls = 1 /\ q.inserts = 1
             /\ (q.found = NoPending /\ q.status # 200) =>
                   /\ q.inserts = 0
                   /\ q.gen_calls = IF api.ai_util THEN 1 ELSE 0

\* C20: a requestQuestion that finds no pending question for its session
\* calls the generator once and, the generator having returned a question,
\* inserts exactly one pending question for that session and answers with
\* its questionId and content; a requestQuestion received while the session
\* has a pending question finds it, answers with its questionId and content,
\* calls no generator and inserts nothing.
C20_PendingQuestionIsReused ==
    /\ [][\A r \in Requests :
            LET q == api'.reqs[r]
                existing == FindPending(api.pending, q.session)
            IN  /\ (q.op = "requestQuestion" /\ api.reqs[r].pc = "idle" /\ q.pc # "idle"
                        /\ existing # NoPending) =>
                      /\ q.pc = "done" /\ q.found = existing
                      /\ api'.pending = api.pending
                /\ (api.reqs[r].pc = "generate" /\ q.pc = "done" /\ q.status = 200) =>
                      /\ PendingWithId(q.questionId) = {}
                      /\ Len(api'.pending) = Len(api.pending) + 1
                      /\ SubSeq(api'.pending, 1, Len(api.pending)) = api.pending
                      /\ api'.pending[Len(api'.pending)].sessionID = q.session
                      /\ api'.pending[Len(api'.pending)].questionId = q.questionId
                      /\ api'.pending[Len(api'.pending)].content = q.content]_vars
    /\ [](C20_Answered)

\* One request generated and inserted a question for session 1; the two
\* later ones were answered with it, and the generator was called once.
C20_Witness ==
    /\ \A r \in Requests : api.reqs[r].pc = "done" /\ api.reqs[r].session = 1
    /\ Len(api.pending) = 1
    /\ api.reqs[1].inserts = 1 /\ api.reqs[1].gen_calls = 1
    /\ api.reqs[2].found = api.pending[1] /\ api.reqs[2].gen_calls = 0
    /\ api.reqs[3].found = api.pending[1] /\ api.reqs[3].gen_calls = 0
    /\ api.reqs[2].questionId = api.reqs[1].questionId
    /\ api.reqs[3].content = api.reqs[1].content

\* The entries of the questions of session s with the given questionId.
EntriesWithId(questions, s, id) ==
    { i \in 1..Len(questions[s]) : questions[s][i].questionId = id }

PendingOfSession(s) == { i \in 1..Len(api.pending) : api.pending[i].sessionID = s }

\* C40: in every reachable state each session has at most one pending
\* question and each pending question has given at most one entry to the
\* questions of its session, also when two requestQuestion requests for one
\* session, or two submitAnswer requests for one question, interleave
\* between their lookup and their insert, update or delete.
C40_OnePendingOneEntry ==
    /\ \A s \in SessionIds : Cardinality(PendingOfSession(s)) <= 1
    /\ \A s \in SessionIds : \A id \in 1..api.next_id :
          Cardinality(EntriesWithId(api.questions, s, id)) <= 1
=============================================================================
